---- MODULE Spec2Model ----
(***************************************************************************)
(* A model of the zpr-common data core: the Visa codec (canonical struct,  *)
(* five-tuple derivation, the legacy and the current wire encodings), the  *)
(* VisaResponse classification, and the attribute / join-policy model.     *)
(*                                                                         *)
(* Conventions.  Option<T> is a sequence of length 0 (None) or 1 (Some).   *)
(* Result<T,E> is a record [ok, val, err] with val / err of length 0 or 1. *)
(* Rust strings are sequences of one-character strings, so that            *)
(* strip_prefix, format! and sort are computed and not assumed.            *)
(***************************************************************************)
EXTENDS Integers, Sequences, FiniteSets, TLC

VARIABLES
    vpc,        \* Visa codec: position ("input", "written", "decoded", "panicked")
    vkind,      \* Visa codec: which input was supplied ("canonical", "v1", "legacy")
    visa,       \* Visa codec: Option<Visa>, the canonical value handed to the encoder
    wire,       \* Visa codec: Option<v1::visa message>
    legacy,     \* Visa codec: Option<vsapi::Visa> (legacy struct)
    decoded,    \* Visa codec: Option<Result<Visa, VsapiTypeError>>
    tuple,      \* Visa codec: Option<[arg, ret]>, the last get_five_tuple() call
    resp_in,    \* VisaResponse: the received message, [fmt, msg]
    resp_out,   \* VisaResponse: Option<Result<VisaResponse, VsapiTypeError>>
    deny_rt,    \* DenyCode: Option<[code, wire, back]>, a code converted to v1 and back
    apc,        \* Attribute: "idle", "building", "built", "failed" (build returned Err), "panicked"
    bld,        \* Attribute: the builder (TagAttrBuilder / TupleAttrBuilder), kind "none" when absent
    attr,       \* Attribute: Option<Attribute>, the attribute the caller holds
    aerr,       \* Attribute: Option<AttributeError>, the error of the last fallible call
    aop,        \* Attribute: name of the last call that built or changed the attribute
    priv,       \* Attribute: TRUE when the attribute came from must_zpr_internal_attr[_mv]
    zargs,      \* Attribute: the (name, value) a must_zpr_internal_attr[_mv] call was given
    proj,       \* Attribute: Option<record of the string projections of attr>
    pout,       \* Policy output: Option<record of the last write_attributes / write_to call>
    conn_in,    \* ConnectRequest: the value to convert, [fmt, msg]
    conn_out,   \* ConnectRequest: Option<Result<..>>, the conversion of conn_in
    conn_back,  \* ConnectRequest: Option<Result<..>>, an encoded request decoded again
    asl,        \* AuthServicesList: [expiration, services]
    now,        \* AuthServicesList: SystemTime::now()
    last_update, \* AuthServicesList: Option<[expiration, services]>, arguments of the last update()
    aq,         \* AuthServicesList: Option<[op, now, result]>, the last query and its answer
    call,       \* Wire helpers: Option<record of the last completed call, its input and result>
    pflags      \* JoinPolicy: the PFlags value the caller merges into with or()

visaVars == <<vpc, vkind, visa, wire, legacy, decoded, tuple>>

respVars == <<resp_in, resp_out, deny_rt>>

attrVars == <<apc, bld, attr, aerr, aop, priv, zargs, proj, pout>>

connVars == <<conn_in, conn_out, conn_back>>

authVars == <<asl, now, last_update, aq>>

callVars == <<call, pflags>>

vars == <<visaVars, respVars, attrVars, connVars, authVars, callVars>>

(***************************************************************************)
(* Option and Result                                                       *)
(***************************************************************************)
None == <<>>

Some(x) == <<x>>

IsSome(o) == Len(o) = 1

IsNone(o) == Len(o) = 0

Unwrap(o) == o[1]

Ok(v) == [ok |-> TRUE, val |-> <<v>>, err |-> <<>>]

Err(kind, msg) == [ok |-> FALSE, val |-> <<>>, err |-> <<[kind |-> kind, msg |-> msg]>>]

\* The `?` operator on an already failed Result: the error is passed on unchanged.
Propagate(r) == [ok |-> FALSE, val |-> <<>>, err |-> r.err]

(***************************************************************************)
(* Integer widths                                                          *)
(***************************************************************************)
U8 == 256

U16 == 65536

AsU8(n) == n % U8

AsU16(n) == n % U16

(***************************************************************************)
(* vsapi_ip_number and L3Type                                              *)
(***************************************************************************)
ICMP == 1

TCP == 6

UDP == 17

IPV6_ICMP == 58

L3Ipv4 == 4

L3Ipv6 == 6

(***************************************************************************)
(* std::net::IpAddr: the family and the octets                             *)
(***************************************************************************)
IpV4(o) == [fam |-> "V4", octets |-> o]

IpV6(o) == [fam |-> "V6", octets |-> o]

is_ipv4(a) == a.fam = "V4"

(***************************************************************************)
(* Visa::get_five_tuple                                                    *)
(***************************************************************************)
\* get_five_tuple with the L3 type read from the destination address instead.
get_five_tuple_l3_from_dest(v) ==
    LET l3_protocol == IF is_ipv4(v.dest_addr) THEN L3Ipv4 ELSE L3Ipv6
        pep == v.dock_pep
        l4 == CASE pep.kind = "ICMP" ->
                       IF l3_protocol = L3Ipv6
                       THEN <<IPV6_ICMP, pep.pep.icmp_type, pep.pep.icmp_code>>
                       ELSE <<ICMP, pep.pep.icmp_type, pep.pep.icmp_code>>
                [] pep.kind = "UDP" -> <<UDP, pep.pep.source_port, pep.pep.dest_port>>
                [] pep.kind = "TCP" -> <<TCP, pep.pep.source_port, pep.pep.dest_port>>
    IN  [source_addr |-> v.source_addr,
         dest_addr |-> v.dest_addr,
         l3_type |-> l3_protocol,
         l4_protocol |-> l4[1],
         source_port |-> l4[2],
         dest_port |-> l4[3]]

get_five_tuple(v) ==
    LET source_addr == v.source_addr
        dest_addr == v.dest_addr
        l3_protocol == IF is_ipv4(source_addr) THEN L3Ipv4 ELSE L3Ipv6
        pep == v.dock_pep
        l4 == CASE pep.kind = "ICMP" ->
                       IF l3_protocol = L3Ipv6
                       THEN <<IPV6_ICMP, pep.pep.icmp_type, pep.pep.icmp_code>>
                       ELSE <<ICMP, pep.pep.icmp_type, pep.pep.icmp_code>>
                [] pep.kind = "UDP" -> <<UDP, pep.pep.source_port, pep.pep.dest_port>>
                [] pep.kind = "TCP" -> <<TCP, pep.pep.source_port, pep.pep.dest_port>>
    IN  [source_addr |-> source_addr,
         dest_addr |-> dest_addr,
         l3_type |-> l3_protocol,
         l4_protocol |-> l4[1],
         source_port |-> l4[2],
         dest_port |-> l4[3]]

(***************************************************************************)
(* Expiration.  A u64 or i64 is its four 16-bit limbs, least significant   *)
(* first, so that `as u64` of an i64 keeps the limbs.  A SystemTime is its *)
(* distance from UNIX_EPOCH in whole seconds (four limbs) and nanoseconds, *)
(* and the side of the epoch it is on.                                     *)
(***************************************************************************)
\* UNIX_EPOCH + Duration::from_millis(timestamp): the Duration has
\* timestamp / 1000 seconds and (timestamp % 1000) * 1_000_000 nanoseconds.
visa_expiration_timestamp_to_system_time(timestamp) ==
    LET RECURSIVE div_rem(_, _)
        div_rem(n, d) ==
            IF Len(n) = 0 THEN [q |-> <<>>, r |-> 0]
            ELSE LET hi == div_rem(Tail(n), d)
                     cur == hi.r * U16 + Head(n)
                 IN  [q |-> <<cur \div d>> \o hi.q, r |-> cur % d]
        millis == div_rem(timestamp, 1000)
    IN  [before_epoch |-> FALSE, secs |-> millis.q, nanos |-> millis.r * 1000000]

\* duration_since(UNIX_EPOCH) is Err before the epoch; as_millis() is the u128
\* secs * 1000 + nanos / 1_000_000, and `as u64` keeps its low 64 bits.
get_expiration_timestamp(v) ==
    LET RECURSIVE mul_add(_, _, _)
        mul_add(n, m, carry) ==
            IF Len(n) = 0 THEN <<carry>>
            ELSE LET x == Head(n) * m + carry
                 IN  <<x % U16>> \o mul_add(Tail(n), m, x \div U16)
        as_millis == mul_add(v.expires.secs, 1000, v.expires.nanos \div 1000000)
    IN  IF v.expires.before_epoch THEN <<0, 0, 0, 0>> ELSE SubSeq(as_millis, 1, 4)

(***************************************************************************)
(* Encoder to the current wire format (vsapi_types/writer.rs)              *)
(***************************************************************************)
IpAddr_write_to(a) ==
    IF a.fam = "V4"
    THEN [which |-> "v4", data |-> a.octets]
    ELSE [which |-> "v6", data |-> a.octets]

EndpointT_to_v1(e) ==
    CASE e = "Any" -> "any"
      [] e = "Server" -> "server"
      [] e = "Client" -> "client"

TcpUdpPep_write_to(pep) ==
    [source_port |-> pep.source_port,
     dest_port |-> pep.dest_port,
     endpoint |-> EndpointT_to_v1(pep.endpoint)]

\* typecode: u16 = ((icmp_type as u16) << 8) | (icmp_code as u16)
IcmpPep_write_to(pep) ==
    [icmp_type_code |-> AsU16(pep.icmp_type * U8) + pep.icmp_code]

KeySet_write_to(k) ==
    [format |-> "zprKF01", ingress_key |-> k.ingress_key, egress_key |-> k.egress_key]

DockPep_write_to(dp) ==
    CASE dp.kind = "TCP" -> [which |-> "tcp", body |-> TcpUdpPep_write_to(dp.pep)]
      [] dp.kind = "UDP" -> [which |-> "udp", body |-> TcpUdpPep_write_to(dp.pep)]
      [] dp.kind = "ICMP" -> [which |-> "icmp", body |-> IcmpPep_write_to(dp.pep)]

\* unimplemented!() is reached when the visa carries constraints.
Visa_write_to_panics(v) == IsSome(v.cons)

Visa_write_to(v) ==
    [issuer_id |-> v.issuer_id,
     expiration |-> get_expiration_timestamp(v),
     dest_addr |-> IpAddr_write_to(v.dest_addr),
     source_addr |-> IpAddr_write_to(v.source_addr),
     dock_pep |-> DockPep_write_to(v.dock_pep),
     session_key |-> KeySet_write_to(v.session_key)]

(***************************************************************************)
(* Decoder from the current wire format (vsapi_types/visa.rs)              *)
(***************************************************************************)
\* The address match reporting a bad length the way ip_addr_from_vec does.
ip_addr_from_reader_bad_format(r) ==
    CASE r.which = "v4" ->
             IF Len(r.data) = 4 THEN Ok(IpV4(r.data))
             ELSE Err("DeserializationError", "Bad IP Address format")
      [] r.which = "v6" ->
             IF Len(r.data) = 16 THEN Ok(IpV6(r.data))
             ELSE Err("DeserializationError", "Bad IP Address format")
      [] OTHER -> Err("NotInSchema", "ip_addr")

\* match reader.which()? { V4(data) => <[u8; 4]>::try_from(data?)?, V6(data) => <[u8; 16]>... }
ip_addr_from_reader(r) ==
    CASE r.which = "v4" ->
             IF Len(r.data) = 4 THEN Ok(IpV4(r.data))
             ELSE Err("TryFromSliceError", "could not convert slice to array")
      [] r.which = "v6" ->
             IF Len(r.data) = 16 THEN Ok(IpV6(r.data))
             ELSE Err("TryFromSliceError", "could not convert slice to array")
      [] OTHER -> Err("NotInSchema", "ip_addr")

EndpointT_from_v1(e) ==
    CASE e = "any" -> Ok("Any")
      [] e = "server" -> Ok("Server")
      [] e = "client" -> Ok("Client")
      [] OTHER -> Err("NotInSchema", "endpoint")

TcpUdpPep_new(source_port, dest_port, endpoint) ==
    [source_port |-> source_port, dest_port |-> dest_port, endpoint |-> endpoint]

IcmpPep_new(icmp_type, icmp_code) == [icmp_type |-> icmp_type, icmp_code |-> icmp_code]

DockPep_try_from_v1(r) ==
    CASE r.which \in {"tcp", "udp"} ->
             LET endpoint == EndpointT_from_v1(r.body.endpoint)
             IN  IF ~endpoint.ok THEN Propagate(endpoint)
                 ELSE Ok([kind |-> IF r.which = "tcp" THEN "TCP" ELSE "UDP",
                          pep |-> TcpUdpPep_new(r.body.source_port, r.body.dest_port,
                                                Unwrap(endpoint.val))])
      [] r.which = "icmp" ->
             LET type_code == r.body.icmp_type_code
             IN  Ok([kind |-> "ICMP", pep |-> IcmpPep_new(AsU8(type_code), 0)])
      [] OTHER -> Err("NotInSchema", "dock_pep")

KeySet_try_from_v1(r) ==
    IF r.format # "zprKF01" THEN Err("NotInSchema", "format")
    ELSE Ok([format |-> "ZprKF01", ingress_key |-> r.ingress_key, egress_key |-> r.egress_key])

Visa_try_from_v1(reader) ==
    LET issuer_id == reader.issuer_id
        config == 0
        expires == visa_expiration_timestamp_to_system_time(reader.expiration)
        source_addr == ip_addr_from_reader(reader.source_addr)
        dest_addr == ip_addr_from_reader(reader.dest_addr)
        dock_pep == DockPep_try_from_v1(reader.dock_pep)
        session_key == KeySet_try_from_v1(reader.session_key)
    IN  IF ~source_addr.ok THEN Propagate(source_addr)
        ELSE IF ~dest_addr.ok THEN Propagate(dest_addr)
        ELSE IF ~dock_pep.ok THEN Propagate(dock_pep)
        ELSE IF ~session_key.ok THEN Propagate(session_key)
        ELSE Ok([issuer_id |-> issuer_id,
                 config |-> config,
                 expires |-> expires,
                 source_addr |-> Unwrap(source_addr.val),
                 dest_addr |-> Unwrap(dest_addr.val),
                 dock_pep |-> Unwrap(dock_pep.val),
                 session_key |-> Unwrap(session_key.val),
                 cons |-> None])

(***************************************************************************)
(* Decoder from the legacy struct (vsapi_types/visa.rs, util/ip.rs)        *)
(***************************************************************************)
ip_addr_from_vec(v) ==
    CASE Len(v) = 4 -> Ok(IpV4(v))
      [] Len(v) = 16 -> Ok(IpV6(v))
      [] OTHER -> Err("DeserializationError", "Bad IP Address format")

TcpUdpPep_from_thrift(a) ==
    [source_port |-> IF IsSome(a.source_port) THEN AsU16(Unwrap(a.source_port)) ELSE 0,
     dest_port |-> IF IsSome(a.dest_port) THEN AsU16(Unwrap(a.dest_port)) ELSE 0,
     endpoint |-> CASE a.server = Some(TRUE) -> "Server"
                    [] a.server = Some(FALSE) -> "Client"
                    [] OTHER -> "Any"]

IcmpPep_from_thrift(a) ==
    LET icmp_type_code == IF IsSome(a.icmp_type_code) THEN AsU16(Unwrap(a.icmp_type_code)) ELSE 0
    IN  [icmp_type |-> AsU8(icmp_type_code), icmp_code |-> 0]

KeySet_default == [format |-> "ZprKF01", ingress_key |-> <<>>, egress_key |-> <<>>]

KeySet_try_from_thrift(k) ==
    IF IsNone(k.format) THEN Err("DeserializationError", "No format")
    ELSE Ok([format |-> "ZprKF01",
             ingress_key |-> IF IsSome(k.ingress_key) THEN Unwrap(k.ingress_key) ELSE <<>>,
             egress_key |-> IF IsSome(k.egress_key) THEN Unwrap(k.egress_key) ELSE <<>>])

Constraints_from_thrift(c) ==
    [bw |-> IF IsSome(c.bw) THEN Unwrap(c.bw) ELSE FALSE,
     bw_limit_bps |-> IF IsSome(c.bw_limit_bps) THEN Unwrap(c.bw_limit_bps) ELSE 0,
     data_cap_id |-> IF IsSome(c.data_cap_id) THEN Unwrap(c.data_cap_id) ELSE <<>>,
     data_cap_bytes |-> IF IsSome(c.data_cap_bytes) THEN Unwrap(c.data_cap_bytes) ELSE 0,
     data_cap_affinity_addr |->
         IF IsSome(c.data_cap_affinity_addr) THEN Unwrap(c.data_cap_affinity_addr) ELSE <<>>]

DockPep_from_thrift(t) ==
    IF IsNone(t.dock_pep) THEN Err("DeserializationError", "No Dock Pep")
    ELSE CASE Unwrap(t.dock_pep) \in {"UDP", "TCP"} ->
                  IF IsNone(t.tcpudp_pep_args)
                  THEN Err("DeserializationError", "No TCP/UDP PEP Args")
                  ELSE Ok([kind |-> Unwrap(t.dock_pep),
                           pep |-> TcpUdpPep_from_thrift(Unwrap(t.tcpudp_pep_args))])
           [] Unwrap(t.dock_pep) = "ICMP" ->
                  IF IsNone(t.icmp_pep_args)
                  THEN Err("DeserializationError", "No ICMP PEP Args")
                  ELSE Ok([kind |-> "ICMP",
                           pep |-> IcmpPep_from_thrift(Unwrap(t.icmp_pep_args))])
           [] OTHER -> Err("DeserializationError", "Unknown Dock Pep")

Visa_try_from_thrift(t) ==
    IF IsNone(t.issuer_id) THEN Err("DeserializationError", "No issuer id")
    ELSE IF IsNone(t.expires) THEN Err("DeserializationError", "No expiration")
    ELSE IF IsNone(t.source_contact) THEN Err("DeserializationError", "No source addr")
    ELSE LET source_addr == ip_addr_from_vec(Unwrap(t.source_contact))
         IN  IF ~source_addr.ok THEN Propagate(source_addr)
    ELSE IF IsNone(t.dest_contact) THEN Err("DeserializationError", "No dest addr")
    ELSE LET dest_addr == ip_addr_from_vec(Unwrap(t.dest_contact))
             dock_pep == DockPep_from_thrift(t)
             session_key == IF IsSome(t.session_key)
                            THEN KeySet_try_from_thrift(Unwrap(t.session_key))
                            ELSE Ok(KeySet_default)
             cons == IF IsSome(t.cons) THEN Some(Constraints_from_thrift(Unwrap(t.cons)))
                     ELSE None
         IN  IF ~dest_addr.ok THEN Propagate(dest_addr)
             ELSE IF ~dock_pep.ok THEN Propagate(dock_pep)
             ELSE IF ~session_key.ok THEN Propagate(session_key)
             ELSE Ok([issuer_id |-> Unwrap(t.issuer_id),
                      config |-> IF IsSome(t.configuration) THEN Unwrap(t.configuration) ELSE 0,
                      expires |-> visa_expiration_timestamp_to_system_time(Unwrap(t.expires)),
                      source_addr |-> Unwrap(source_addr.val),
                      dest_addr |-> Unwrap(dest_addr.val),
                      dock_pep |-> Unwrap(dock_pep.val),
                      session_key |-> Unwrap(session_key.val),
                      cons |-> cons])

(***************************************************************************)
(* Inputs of the Visa codec                                                *)
(***************************************************************************)
Addr4a == <<10, 0, 0, 1>>

Addr4b == <<192, 168, 1, 100>>

Addr6a == <<32, 1, 13, 184, 0, 0, 0, 0, 0, 0, 0, 0, 0, 0, 0, 1>>

AddrInputs == {IpV4(Addr4a), IpV4(Addr4b), IpV6(Addr6a)}

DockPepInputs ==
    LET
        SourcePortInputs ==
            {0, 1024, 65535}
        DestPortInputs ==
            {0, 443}
    IN
        [kind : {"TCP", "UDP"},
         pep : [source_port : SourcePortInputs, dest_port : DestPortInputs,
                endpoint : {"Any", "Server", "Client"}]]
        \cup [kind : {"ICMP"}, pep : [icmp_type : {0, 8, 128}, icmp_code : {0, 3}]]

VisaInputs ==
    LET
        KeySetInput ==
            [format |-> "ZprKF01", ingress_key |-> <<1, 2>>, egress_key |-> <<3, 4>>]
        ConstraintsInput ==
            [bw |-> TRUE, bw_limit_bps |-> 1000, data_cap_id |-> <<"c">>, data_cap_bytes |-> 10,
            data_cap_affinity_addr |-> Addr4a]
        ExpiresInputs ==
            {[before_epoch |-> FALSE, secs |-> <<1, 0, 0, 0>>, nanos |-> 500000000],
             [before_epoch |-> FALSE, secs |-> <<1, 0, 0, 0>>, nanos |-> 500000001],
             [before_epoch |-> TRUE, secs |-> <<0, 0, 0, 0>>, nanos |-> 5000000],
             [before_epoch |-> FALSE, secs |-> <<42991, 19398, 35127, 65>>, nanos |-> 616000000]}
    IN
        [issuer_id : {7}, config : {0, 9}, expires : ExpiresInputs,
         source_addr : AddrInputs, dest_addr : AddrInputs, dock_pep : DockPepInputs,
         session_key : {KeySetInput}, cons : {None, Some(ConstraintsInput)}]

\* Messages of the current format as a peer may send them: a union may carry a
\* discriminant the schema does not know, an enum an unknown enumerant, and the
\* address data any number of bytes.
V1VisaInputs ==
    LET
        V1IpAddrInputs ==
            {[which |-> "v4", data |-> Addr4a], [which |-> "v6", data |-> Addr6a],
            [which |-> "v4", data |-> <<10, 0, 1>>], [which |-> "v6", data |-> Addr4a],
            [which |-> "unknown", data |-> <<>>]}
        V1DockPepInputs ==
            {[which |-> "tcp", body |-> [source_port |-> 1024, dest_port |-> 443, endpoint |-> "server"]],
            [which |-> "udp", body |-> [source_port |-> 0, dest_port |-> 53, endpoint |-> "unknown"]],
            [which |-> "icmp", body |-> [icmp_type_code |-> 2048]],
            [which |-> "icmp", body |-> [icmp_type_code |-> 2051]],
            [which |-> "unknown", body |-> [none |-> TRUE]]}
        V1KeySetInputs ==
            {[format |-> "zprKF01", ingress_key |-> <<1, 2>>, egress_key |-> <<3, 4>>],
            [format |-> "unknown", ingress_key |-> <<>>, egress_key |-> <<>>]}
    IN
        [issuer_id : {7}, expiration : {<<1500, 0, 0, 0>>, <<65535, 65535, 65535, 65535>>},
         source_addr : V1IpAddrInputs,
         dest_addr : {[which |-> "v4", data |-> Addr4b], [which |-> "v4", data |-> Addr6a]},
         dock_pep : V1DockPepInputs, session_key : V1KeySetInputs]

\* Legacy structs: every field is independently optional.
ThriftVisaInputs ==
    LET
        ThriftTcpUdpArgsInputs ==
            [source_port : {None, Some(1024)}, dest_port : {Some(443)},
            server : {None, Some(TRUE), Some(FALSE)}]
        ThriftKeySetInputs ==
            {[format |-> None, ingress_key |-> None, egress_key |-> None],
            [format |-> Some(1), ingress_key |-> Some(<<1, 2>>), egress_key |-> None]}
        ThriftConstraintsInput ==
            [bw |-> Some(TRUE), bw_limit_bps |-> None, data_cap_id |-> None, data_cap_bytes |-> Some(10),
            data_cap_affinity_addr |-> None]
    IN
        [issuer_id : {None, Some(7)},
         configuration : {None, Some(9)},
         expires : {None, Some(<<1500, 0, 0, 0>>)},
         source_contact : {None, Some(Addr4a), Some(Addr6a), Some(<<10, 0, 1>>)},
         dest_contact : {None, Some(Addr4b)},
         dock_pep : {None, Some("UDP"), Some("TCP"), Some("ICMP"), Some("OTHER")},
         tcpudp_pep_args : {None} \cup {Some(a) : a \in ThriftTcpUdpArgsInputs},
         icmp_pep_args : {None, Some([icmp_type_code |-> None]), Some([icmp_type_code |-> Some(2051)])},
         session_key : {None} \cup {Some(k) : k \in ThriftKeySetInputs},
         cons : {None, Some(ThriftConstraintsInput)}]

(***************************************************************************)
(* The Visa codec as a state machine: an input is supplied, encoded and/or *)
(* decoded, and the five-tuple is derived from a canonical Visa.           *)
(***************************************************************************)
RespIdle == resp_in = [fmt |-> "none"] /\ resp_out = None /\ deny_rt = None

ConnIdle == conn_in = [fmt |-> "none"] /\ conn_out = None /\ conn_back = None

\* impl Default for AuthServicesList with no expiration at all.
AuthServicesList_default_no_expiration == [expiration |-> None, services |-> <<>>]

\* impl Default for AuthServicesList: expiration Some(UNIX_EPOCH), no services.
AuthServicesList_default == [expiration |-> Some(0), services |-> <<>>]

AuthIdle == asl = AuthServicesList_default /\ now = 0 /\ last_update = None /\ aq = None

\* No call made yet; PFlags::default() has every flag clear.
CallIdle == call = None /\ pflags = [node |-> FALSE, vs |-> FALSE, vs_dock |-> FALSE]

NoBuilder == [kind |-> "none"]

AttrIdle ==
    /\ apc = "idle" /\ bld = NoBuilder /\ attr = None /\ aerr = None /\ aop = "none"
    /\ priv = FALSE /\ zargs = None /\ proj = None /\ pout = None

VisaInit ==
    /\ RespIdle
    /\ AttrIdle
    /\ ConnIdle
    /\ AuthIdle
    /\ CallIdle
    /\ vpc = "input"
    /\ decoded = None
    /\ tuple = None
    /\ \/ vkind = "canonical" /\ visa \in {Some(v) : v \in VisaInputs}
          /\ wire = None /\ legacy = None
       \/ vkind = "v1" /\ wire \in {Some(w) : w \in V1VisaInputs}
          /\ visa = None /\ legacy = None
       \/ vkind = "legacy" /\ legacy \in {Some(t) : t \in ThriftVisaInputs}
          /\ visa = None /\ wire = None

\* visa.get_five_tuple() on the caller's Visa.
GetFiveTuple ==
    /\ vkind = "canonical"
    /\ vpc \in {"input", "written"}
    /\ tuple' = Some([arg |-> Unwrap(visa), ret |-> get_five_tuple(Unwrap(visa))])
    /\ UNCHANGED <<vpc, vkind, visa, wire, legacy, decoded, respVars, attrVars, connVars, authVars, callVars>>

\* visa.write_to(builder)
WriteVisa ==
    /\ vkind = "canonical"
    /\ vpc = "input"
    /\ IF Visa_write_to_panics(Unwrap(visa))
       THEN vpc' = "panicked" /\ wire' = wire
       ELSE vpc' = "written" /\ wire' = Some(Visa_write_to(Unwrap(visa)))
    /\ UNCHANGED <<vkind, visa, legacy, decoded, tuple, respVars, attrVars, connVars, authVars, callVars>>

\* Visa::try_from(v1::visa::Reader)
DecodeV1 ==
    /\ \/ vkind = "canonical" /\ vpc = "written"
       \/ vkind = "v1" /\ vpc = "input"
    /\ decoded' = Some(Visa_try_from_v1(Unwrap(wire)))
    /\ vpc' = "decoded"
    /\ UNCHANGED <<vkind, visa, wire, legacy, tuple, respVars, attrVars, connVars, authVars, callVars>>

\* Visa::try_from(vsapi::Visa)
DecodeLegacy ==
    /\ vkind = "legacy"
    /\ vpc = "input"
    /\ decoded' = Some(Visa_try_from_thrift(Unwrap(legacy)))
    /\ vpc' = "decoded"
    /\ UNCHANGED <<vkind, visa, wire, legacy, tuple, respVars, attrVars, connVars, authVars, callVars>>

\* get_five_tuple() on a Visa a decoder returned.
GetFiveTupleDecoded ==
    /\ vpc = "decoded"
    /\ Unwrap(decoded).ok
    /\ LET v == Unwrap(Unwrap(decoded).val)
       IN  tuple' = Some([arg |-> v, ret |-> get_five_tuple(v)])
    /\ UNCHANGED <<vpc, vkind, visa, wire, legacy, decoded, respVars, attrVars, connVars, authVars, callVars>>

VisaNext ==
    \/ GetFiveTuple
    \/ WriteVisa
    \/ DecodeV1
    \/ DecodeLegacy
    \/ GetFiveTupleDecoded

SpecVisa == VisaInit /\ [][VisaNext]_vars

(***************************************************************************)
(* Claims about the Visa codec                                             *)
(***************************************************************************)

\* C1: every five-tuple returned by get_five_tuple() copies the Visa's source and
\* destination address, has l3_type IPv4 exactly when source_addr is IPv4 and IPv6
\* otherwise (whatever the family of dest_addr), and carries (6, source_port,
\* dest_port) for TCP, (17, source_port, dest_port) for UDP, and for ICMP the
\* protocol 1 on an IPv4 source, 58 on an IPv6 source, with (icmp_type, icmp_code)
\* in the two port slots.
C1_FiveTupleDerivation ==
    IsSome(tuple) =>
        LET v == Unwrap(tuple).arg
            ft == Unwrap(tuple).ret
            v4 == v.source_addr.fam = "V4"
        IN  /\ ft.source_addr = v.source_addr
            /\ ft.dest_addr = v.dest_addr
            /\ ft.l3_type = (IF v4 THEN 4 ELSE 6)
            /\ v.dock_pep.kind = "TCP" =>
                   <<ft.l4_protocol, ft.source_port, ft.dest_port>>
                       = <<6, v.dock_pep.pep.source_port, v.dock_pep.pep.dest_port>>
            /\ v.dock_pep.kind = "UDP" =>
                   <<ft.l4_protocol, ft.source_port, ft.dest_port>>
                       = <<17, v.dock_pep.pep.source_port, v.dock_pep.pep.dest_port>>
            /\ v.dock_pep.kind = "ICMP" =>
                   <<ft.l4_protocol, ft.source_port, ft.dest_port>>
                       = <<IF v4 THEN 1 ELSE 58, v.dock_pep.pep.icmp_type, v.dock_pep.pep.icmp_code>>

\* C1 witness: the five-tuple of an ICMP Visa from an IPv6 source to an IPv4
\* destination has been derived, with protocol 58.
C1_Witness ==
    /\ IsSome(tuple)
    /\ Unwrap(tuple).arg.dock_pep.kind = "ICMP"
    /\ Unwrap(tuple).arg.source_addr.fam = "V6"
    /\ Unwrap(tuple).arg.dest_addr.fam = "V4"
    /\ Unwrap(tuple).ret.l4_protocol = 58

\* C2: a Visa written with write_to and decoded again from the current format is
\* decoded successfully into a Visa whose five-tuple equals the one of the Visa
\* that was written, in every field.
C2_RoundTripFiveTuple ==
    (vkind = "canonical" /\ vpc = "decoded") =>
        /\ Unwrap(decoded).ok
        /\ get_five_tuple(Unwrap(Unwrap(decoded).val)) = get_five_tuple(Unwrap(visa))

\* C3: a decode from the legacy struct either fails with a DeserializationError or
\* returns a Visa every field of which was present on the wire (issuer id,
\* configuration, expiration, both addresses, dock pep with its arguments, session
\* key); constraints are optional as a whole.
C3_LegacyDecodePopulatesEveryField ==
    (vkind = "legacy" /\ vpc = "decoded") =>
        LET t == Unwrap(legacy)
            r == Unwrap(decoded)
        IN  IF r.ok
            THEN /\ IsSome(t.issuer_id)
                 /\ IsSome(t.configuration)
                 /\ IsSome(t.expires)
                 /\ IsSome(t.source_contact)
                 /\ IsSome(t.dest_contact)
                 /\ IsSome(t.dock_pep)
                 /\ IsSome(t.session_key)
            ELSE Unwrap(r.err).kind = "DeserializationError"

(***************************************************************************)
(* VisaResponse (vsapi_types/response.rs)                                  *)
(***************************************************************************)
V1DenyCodes ==
    {"noReason", "noMatch", "denied", "sourceNotFound", "destNotFound",
     "sourceAuthError", "destAuthError", "quotaExceeded"}

V1ErrorCodes ==
    {"internal", "authRequired", "invalidOperation", "outOfSync", "notFound",
     "invalidSignature", "quotaExceeded", "temporarilyUnavailable", "authError", "paramError"}

\* From<v1::VisaDenyCode> for DenyCode
DenyCode_from_v1(code) ==
    CASE code = "noReason" -> "NoReason"
      [] code = "noMatch" -> "NoMatch"
      [] code = "denied" -> "Denied"
      [] code = "sourceNotFound" -> "SourceNotFound"
      [] code = "destNotFound" -> "DestNotFound"
      [] code = "sourceAuthError" -> "SourceAuthError"
      [] code = "destAuthError" -> "DestAuthError"
      [] code = "quotaExceeded" -> "QuotaExceeded"

\* From<v1::ErrorCode> for ErrorCode
ErrorCode_from_v1(code) ==
    CASE code = "internal" -> "Internal"
      [] code = "authRequired" -> "AuthRequired"
      [] code = "invalidOperation" -> "InvalidOperation"
      [] code = "outOfSync" -> "OutOfSync"
      [] code = "notFound" -> "NotFound"
      [] code = "invalidSignature" -> "InvalidSignature"
      [] code = "quotaExceeded" -> "QuotaExceeded"
      [] code = "temporarilyUnavailable" -> "TemporarilyUnavailable"
      [] code = "authError" -> "AuthError"
      [] code = "paramError" -> "ParamError"

DenyCodes ==
    {"Fail", "NoReason", "NoMatch", "Denied", "SourceNotFound", "DestNotFound",
     "SourceAuthError", "DestAuthError", "QuotaExceeded"}

\* From<DenyCode> for v1::VisaDenyCode with Fail sent as denied.
DenyCode_to_v1_fail_as_denied(code) ==
    CASE code = "NoReason" -> "noReason"
      [] code = "NoMatch" -> "noMatch"
      [] code = "Denied" -> "denied"
      [] code = "SourceNotFound" -> "sourceNotFound"
      [] code = "DestNotFound" -> "destNotFound"
      [] code = "SourceAuthError" -> "sourceAuthError"
      [] code = "DestAuthError" -> "destAuthError"
      [] code = "QuotaExceeded" -> "quotaExceeded"
      [] code = "Fail" -> "denied"

\* From<DenyCode> for v1::VisaDenyCode
DenyCode_to_v1(code) ==
    CASE code = "NoReason" -> "noReason"
      [] code = "NoMatch" -> "noMatch"
      [] code = "Denied" -> "denied"
      [] code = "SourceNotFound" -> "sourceNotFound"
      [] code = "DestNotFound" -> "destNotFound"
      [] code = "SourceAuthError" -> "sourceAuthError"
      [] code = "DestAuthError" -> "destAuthError"
      [] code = "QuotaExceeded" -> "quotaExceeded"
      [] code = "Fail" -> "noReason"

Denied_new(code, reason) == [code |-> code, reason |-> reason]

\* The Error branch answered with a VisaResponse value instead of an error.
VisaResponse_try_from_v1_error_as_value(r) ==
    CASE r.which = "allow" ->
             LET v == Visa_try_from_v1(r.visa)
             IN  IF ~v.ok THEN Propagate(v) ELSE Ok([kind |-> "Allow", visa |-> Unwrap(v.val)])
      [] r.which = "deny" ->
             IF r.code \notin V1DenyCodes THEN Err("NotInSchema", "deny")
             ELSE Ok([kind |-> "Deny", denied |-> Denied_new(DenyCode_from_v1(r.code), None)])
      [] r.which = "error" ->
             IF r.error.code \notin V1ErrorCodes THEN Err("NotInSchema", "code")
             ELSE Ok([kind |-> "VSApiError", code |-> ErrorCode_from_v1(r.error.code)])
      [] OTHER -> Err("NotInSchema", "visa_response")

\* TryFrom<v1::visa_response::Reader> for VisaResponse.  which()?, c? and
\* get_code()? fail with NotInSchema on a value the schema does not know.
VisaResponse_try_from_v1(r) ==
    CASE r.which = "allow" ->
             LET v == Visa_try_from_v1(r.visa)
             IN  IF ~v.ok THEN Propagate(v) ELSE Ok([kind |-> "Allow", visa |-> Unwrap(v.val)])
      [] r.which = "deny" ->
             IF r.code \notin V1DenyCodes THEN Err("NotInSchema", "deny")
             ELSE Ok([kind |-> "Deny", denied |-> Denied_new(DenyCode_from_v1(r.code), None)])
      [] r.which = "error" ->
             IF r.error.code \notin V1ErrorCodes THEN Err("NotInSchema", "code")
             ELSE Err("CodedError", ErrorCode_from_v1(r.error.code))
      [] OTHER -> Err("NotInSchema", "visa_response")

\* TryFrom<vsapi::VisaHop> for Visa
Visa_try_from_hop(hop) ==
    IF IsSome(hop.visa) THEN Visa_try_from_thrift(Unwrap(hop.visa))
    ELSE Err("DeserializationError", "No visa")

\* TryFrom<vsapi::VisaResponse> for VisaResponse
VisaResponse_try_from_thrift(t) ==
    IF IsNone(t.status) THEN Err("DeserializationError", "No code, required in Thrift visa")
    ELSE CASE Unwrap(t.status) = "SUCCESS" ->
                  IF IsSome(t.visa)
                  THEN LET v == Visa_try_from_hop(Unwrap(t.visa))
                       IN  IF ~v.ok THEN Propagate(v)
                           ELSE Ok([kind |-> "Allow", visa |-> Unwrap(v.val)])
                  ELSE Err("DeserializationError", "No VisaHop in VisaResponse")
           [] Unwrap(t.status) = "FAIL" ->
                  Ok([kind |-> "Deny", denied |-> Denied_new("Fail", t.reason)])
           [] OTHER -> Err("DeserializationError", "Unknown status code")

V1VisaResponseInputs ==
    [which : {"allow"}, visa : V1VisaInputs]
    \cup [which : {"deny"}, code : V1DenyCodes \cup {"unknown"}]
    \cup [which : {"error"},
          error : [code : V1ErrorCodes \cup {"unknown"}, message : {<<"e">>}, retry_in : {0, 30}]]
    \cup {[which |-> "unknown"]}

ThriftVisaResponseInputs ==
    [status : {None, Some("SUCCESS"), Some("FAIL"), Some("OTHER")},
     visa : {None, Some([visa |-> None])}
            \cup {Some([visa |-> Some(t)]) :
                      t \in {x \in ThriftVisaInputs :
                                 /\ IsSome(x.issuer_id) /\ IsSome(x.expires) /\ IsSome(x.dest_contact)
                                 /\ IsNone(x.configuration) /\ IsNone(x.cons)
                                 /\ IsNone(x.tcpudp_pep_args) /\ x.source_contact # None}},
     reason : {None, Some(<<"n", "o">>)}]

VisaIdle ==
    /\ vpc = "idle" /\ vkind = "none"
    /\ visa = None /\ wire = None /\ legacy = None /\ decoded = None /\ tuple = None

RespInit ==
    /\ VisaIdle
    /\ AttrIdle
    /\ ConnIdle
    /\ AuthIdle
    /\ CallIdle
    /\ resp_out = None
    /\ deny_rt = None
    /\ \/ resp_in \in [fmt : {"v1"}, msg : V1VisaResponseInputs]
       \/ resp_in \in [fmt : {"legacy"}, msg : ThriftVisaResponseInputs]

\* VisaResponse::try_from(v1::visa_response::Reader)
DecodeResponseV1 ==
    /\ resp_in.fmt = "v1"
    /\ resp_out = None
    /\ resp_out' = Some(VisaResponse_try_from_v1(resp_in.msg))
    /\ UNCHANGED <<resp_in, deny_rt, visaVars, attrVars, connVars, authVars, callVars>>

\* VisaResponse::try_from(vsapi::VisaResponse)
DecodeResponseLegacy ==
    /\ resp_in.fmt = "legacy"
    /\ resp_out = None
    /\ resp_out' = Some(VisaResponse_try_from_thrift(resp_in.msg))
    /\ UNCHANGED <<resp_in, deny_rt, visaVars, attrVars, connVars, authVars, callVars>>

\* v1::VisaDenyCode::from(code), then DenyCode::from of the result
ReencodeDenyCode ==
    /\ deny_rt = None
    /\ \E code \in DenyCodes :
           LET wire_code == DenyCode_to_v1(code)
           IN  deny_rt' = Some([code |-> code, wire |-> wire_code,
                                back |-> DenyCode_from_v1(wire_code)])
    /\ UNCHANGED <<resp_in, resp_out, visaVars, attrVars, connVars, authVars, callVars>>

RespNext ==
    \/ DecodeResponseV1
    \/ DecodeResponseLegacy
    \/ ReencodeDenyCode

SpecResp == RespInit /\ [][RespNext]_vars

\* C4 (as stated): a current-format response whose branch is Error always decodes
\* to Err(CodedError(code)).
C4_ErrorBranchAlwaysCodedError ==
    (resp_in.fmt = "v1" /\ IsSome(resp_out) /\ resp_in.msg.which = "error") =>
        /\ ~Unwrap(resp_out).ok
        /\ Unwrap(Unwrap(resp_out).err).kind = "CodedError"

\* C4 (amended): decoding a current-format VisaResponse classifies by branch: Allow
\* yields Ok(Allow(visa)) or the Visa codec's error; Deny yields
\* Ok(Deny(Denied{code, reason: None})) with the code taken from the closed table,
\* and an unknown wire deny code yields an error; Error never yields Ok: it yields
\* Err(CodedError(code)) when the wire error code is one the schema knows and a
\* schema error (NotInSchema) when it is not.  No decode, from either wire format,
\* returns Ok with the error variant of VisaResponse.
C4_ResponseClassification ==
    IsSome(resp_out) =>
        LET out == Unwrap(resp_out)
            m == resp_in.msg
            denyTable == [noReason |-> "NoReason", noMatch |-> "NoMatch", denied |-> "Denied",
                          sourceNotFound |-> "SourceNotFound", destNotFound |-> "DestNotFound",
                          sourceAuthError |-> "SourceAuthError", destAuthError |-> "DestAuthError",
                          quotaExceeded |-> "QuotaExceeded"]
            errorTable == [internal |-> "Internal", authRequired |-> "AuthRequired",
                           invalidOperation |-> "InvalidOperation", outOfSync |-> "OutOfSync",
                           notFound |-> "NotFound", invalidSignature |-> "InvalidSignature",
                           quotaExceeded |-> "QuotaExceeded",
                           temporarilyUnavailable |-> "TemporarilyUnavailable",
                           authError |-> "AuthError", paramError |-> "ParamError"]
        IN  /\ out.ok => Unwrap(out.val).kind \in {"Allow", "Deny"}
            /\ (resp_in.fmt = "v1" /\ m.which = "allow") =>
                   LET v == Visa_try_from_v1(m.visa)
                   IN  IF v.ok
                       THEN out.ok /\ Unwrap(out.val) = [kind |-> "Allow", visa |-> Unwrap(v.val)]
                       ELSE ~out.ok /\ out.err = v.err
            /\ (resp_in.fmt = "v1" /\ m.which = "deny") =>
                   IF m.code \in DOMAIN denyTable
                   THEN /\ out.ok
                        /\ Unwrap(out.val) =
                               [kind |-> "Deny", denied |-> [code |-> denyTable[m.code], reason |-> None]]
                   ELSE ~out.ok
            /\ (resp_in.fmt = "v1" /\ m.which = "error") =>
                   /\ ~out.ok
                   /\ IF m.error.code \in DOMAIN errorTable
                      THEN Unwrap(out.err) = [kind |-> "CodedError", msg |-> errorTable[m.error.code]]
                      ELSE Unwrap(out.err).kind = "NotInSchema"

\* C4 witness: an Error branch with a known code has been decoded to
\* Err(CodedError(AuthRequired)).
C4_Witness ==
    /\ resp_in.fmt = "v1"
    /\ resp_in.msg.which = "error"
    /\ IsSome(resp_out)
    /\ ~Unwrap(resp_out).ok
    /\ Unwrap(Unwrap(resp_out).err) = [kind |-> "CodedError", msg |-> "AuthRequired"]

(***************************************************************************)
(* Strings (sequences of characters)                                       *)
(***************************************************************************)
starts_with(s, prefix) == Len(s) >= Len(prefix) /\ SubSeq(s, 1, Len(prefix)) = prefix

\* str::strip_prefix
strip_prefix(s, prefix) ==
    IF starts_with(s, prefix) THEN Some(SubSeq(s, Len(prefix) + 1, Len(s))) ELSE None

\* The byte of a character, for the characters attribute values are drawn from.
CharCode(c) ==
    CASE c = "A" -> 65
      [] c = "a" -> 97
      [] c = "b" -> 98

\* Ord for String: byte-wise lexicographic order.
RECURSIVE str_lt(_, _)
str_lt(s, t) ==
    IF Len(t) = 0 THEN FALSE
    ELSE IF Len(s) = 0 THEN TRUE
    ELSE IF CharCode(Head(s)) # CharCode(Head(t)) THEN CharCode(Head(s)) < CharCode(Head(t))
    ELSE str_lt(Tail(s), Tail(t))

RECURSIVE sort_insert(_, _)
sort_insert(sorted, x) ==
    IF Len(sorted) = 0 THEN <<x>>
    ELSE IF str_lt(x, Head(sorted)) THEN <<x>> \o sorted
    ELSE <<Head(sorted)>> \o sort_insert(Tail(sorted), x)

\* Vec<String>::sort
RECURSIVE sort(_)
sort(v) == IF Len(v) = 0 THEN <<>> ELSE sort_insert(sort(SubSeq(v, 1, Len(v) - 1)), v[Len(v)])

\* [String]::join
RECURSIVE join(_, _)
join(v, sep) ==
    IF Len(v) = 0 THEN <<>>
    ELSE IF Len(v) = 1 THEN v[1]
    ELSE v[1] \o sep \o join(Tail(v), sep)

(***************************************************************************)
(* Attribute (policy_types/attribute.rs)                                   *)
(***************************************************************************)
ATTR_DOMAIN_SERVICE == <<"s", "e", "r", "v", "i", "c", "e">>

ATTR_DOMAIN_USER == <<"u", "s", "e", "r">>

ATTR_DOMAIN_ENDPOINT == <<"e", "n", "d", "p", "o", "i", "n", "t">>

ATTR_DOMAIN_ZPR_INTERNAL == <<"z", "p", "r">>

AttrDomains == {"Unspecified", "Endpoint", "User", "Service", "ZprInternal"}

\* impl fmt::Display for AttrDomain
AttrDomain_fmt(d) ==
    CASE d = "Endpoint" -> ATTR_DOMAIN_ENDPOINT
      [] d = "User" -> ATTR_DOMAIN_USER
      [] d = "Service" -> ATTR_DOMAIN_SERVICE
      [] d = "ZprInternal" -> ATTR_DOMAIN_ZPR_INTERNAL
      [] d = "Unspecified" -> <<"U", "N", "S", "P", "E", "C", "I", "F", "I", "E", "D">>

AttrErr(kind, msg) == [ok |-> FALSE, val |-> <<>>, err |-> <<[kind |-> kind, msg |-> msg]>>]

\* parse_domain with the service prefix forgotten.
parse_domain_no_service(key) ==
    IF IsSome(strip_prefix(key, ATTR_DOMAIN_ENDPOINT \o <<".">>))
    THEN Ok(<<"Endpoint", Unwrap(strip_prefix(key, ATTR_DOMAIN_ENDPOINT \o <<".">>))>>)
    ELSE IF IsSome(strip_prefix(key, ATTR_DOMAIN_USER \o <<".">>))
    THEN Ok(<<"User", Unwrap(strip_prefix(key, ATTR_DOMAIN_USER \o <<".">>))>>)
    ELSE AttrErr("InvalidDomain", key)

\* Attribute::parse_domain
parse_domain(key) ==
    IF IsSome(strip_prefix(key, ATTR_DOMAIN_ENDPOINT \o <<".">>))
    THEN Ok(<<"Endpoint", Unwrap(strip_prefix(key, ATTR_DOMAIN_ENDPOINT \o <<".">>))>>)
    ELSE IF IsSome(strip_prefix(key, ATTR_DOMAIN_USER \o <<".">>))
    THEN Ok(<<"User", Unwrap(strip_prefix(key, ATTR_DOMAIN_USER \o <<".">>))>>)
    ELSE IF IsSome(strip_prefix(key, ATTR_DOMAIN_SERVICE \o <<".">>))
    THEN Ok(<<"Service", Unwrap(strip_prefix(key, ATTR_DOMAIN_SERVICE \o <<".">>))>>)
    ELSE AttrErr("InvalidDomain", key)

\* DomainFallback: [kind, hint]; hint is read only under UseHint.
UseHint(d) == [kind |-> "UseHint", hint |-> d]

UseUnspecified == [kind |-> "UseUnspecified", hint |-> "Unspecified"]

ErrorIfMissing == [kind |-> "ErrorIfMissing", hint |-> "Unspecified"]

resolve_domain(name, fb) ==
    LET parsed == parse_domain(name)
    IN  IF parsed.ok THEN parsed
        ELSE CASE fb.kind = "UseHint" -> Ok(<<fb.hint, name>>)
               [] fb.kind = "UseUnspecified" -> Ok(<<"Unspecified", name>>)
               [] fb.kind = "ErrorIfMissing" -> AttrErr("InvalidDomain", name)

\* TagAttrBuilder::new
TagAttrBuilder_new(name) ==
    [kind |-> "tag", raw_name |-> name, attr_type |-> "Tag", values |-> None,
     optional |-> FALSE, domain_fb |-> ErrorIfMissing]

\* TupleAttrBuilder::new
TupleAttrBuilder_new(name) ==
    [kind |-> "tuple", raw_name |-> name, attr_type |-> "SingleValued", values |-> None,
     optional |-> FALSE, domain_fb |-> ErrorIfMissing]

\* TagAttrBuilder::build
TagAttrBuilder_build(b) ==
    LET r == resolve_domain(b.raw_name, b.domain_fb)
    IN  IF ~r.ok THEN r
        ELSE Ok([domain |-> Unwrap(r.val)[1], name |-> Unwrap(r.val)[2], values |-> None,
                 attr_type |-> "Tag", optional |-> b.optional])

\* TupleAttrBuilder::build without the inference from the number of values.
TupleAttrBuilder_build_no_inference(b) ==
    LET r == resolve_domain(b.raw_name, b.domain_fb)
    IN  IF ~r.ok THEN r
        ELSE Ok([domain |-> Unwrap(r.val)[1], name |-> Unwrap(r.val)[2], values |-> b.values,
                 attr_type |-> b.attr_type, optional |-> b.optional])

\* TupleAttrBuilder::build
TupleAttrBuilder_build(b) ==
    LET r == resolve_domain(b.raw_name, b.domain_fb)
        attr_type == CASE b.attr_type = "MultiValued" -> "MultiValued"
                       [] b.attr_type = "SingleValued" /\ IsSome(b.values)
                              /\ Len(Unwrap(b.values)) > 1 -> "MultiValued"
                       [] OTHER -> "SingleValued"
    IN  IF ~r.ok THEN r
        ELSE Ok([domain |-> Unwrap(r.val)[1], name |-> Unwrap(r.val)[2], values |-> b.values,
                 attr_type |-> attr_type, optional |-> b.optional])

is_tag(a) == a.attr_type = "Tag"

is_multi_valued(a) == a.attr_type = "MultiValued"

\* format!("{}.{}", self.domain, self.name)
attr_key(a) == AttrDomain_fmt(a.domain) \o <<".">> \o a.name

attr_with_values(a) ==
    LET v == Unwrap(a.values)
    IN  IF Len(v) = 0 THEN attr_key(a) \o <<":">>
        ELSE IF Len(v) = 1 THEN attr_key(a) \o <<":">> \o v[1]
        ELSE attr_key(a) \o <<":", "{">> \o join(v, <<",", " ">>) \o <<"}">>

to_schema_string(a) ==
    IF is_tag(a) THEN <<"#">> \o attr_key(a)
    ELSE IF IsSome(a.values) THEN attr_with_values(a)
    ELSE attr_key(a)
             \o (IF is_multi_valued(a) THEN <<"{", "}">> ELSE <<>>)
             \o (IF a.optional THEN <<"?">> ELSE <<>>)

to_instance_string(a) ==
    IF is_tag(a) THEN <<"#">> \o attr_key(a)
    ELSE IF IsSome(a.values) THEN attr_with_values(a)
    ELSE attr_key(a)

\* zpl_key with the tag case forgotten.
zpl_key_no_tag_case(a) == AttrDomain_fmt(a.domain) \o <<".">> \o a.name

zpl_key(a) ==
    IF is_tag(a) THEN AttrDomain_fmt(a.domain) \o <<".", "z", "p", "r", ".", "t", "a", "g">>
    ELSE AttrDomain_fmt(a.domain) \o <<".">> \o a.name

zpl_value(a) ==
    IF is_tag(a) THEN AttrDomain_fmt(a.domain) \o <<".">> \o a.name
    ELSE IF IsSome(a.values) THEN join(Unwrap(a.values), <<",", " ">>)
    ELSE <<>>

\* zpl_values returning the values in stored order.
zpl_values_unsorted(a) ==
    IF is_tag(a) THEN <<AttrDomain_fmt(a.domain) \o <<".">> \o a.name>>
    ELSE IF IsSome(a.values) THEN Unwrap(a.values)
    ELSE <<>>

zpl_values(a) ==
    IF is_tag(a) THEN <<AttrDomain_fmt(a.domain) \o <<".">> \o a.name>>
    ELSE IF IsSome(a.values) THEN sort(Unwrap(a.values))
    ELSE <<>>

\* zplc_key with an optionality mark.
zplc_key_with_optional(a) ==
    (IF is_tag(a) THEN <<"#">> ELSE <<>>)
        \o AttrDomain_fmt(a.domain) \o <<".">> \o a.name
        \o (IF is_multi_valued(a) THEN <<"{", "}">> ELSE <<>>)
        \o (IF a.optional THEN <<"?">> ELSE <<>>)

zplc_key(a) ==
    (IF is_tag(a) THEN <<"#">> ELSE <<>>)
        \o AttrDomain_fmt(a.domain) \o <<".">> \o a.name
        \o (IF is_multi_valued(a) THEN <<"{", "}">> ELSE <<>>)

\* Attribute::set_multi_valued: the Result and the attribute afterwards.
set_multi_valued(a) ==
    IF is_tag(a)
    THEN [res |-> AttrErr("InvalidOperation",
                          <<"attempt to set tag as multi valued on ">> \o zplc_key(a)),
          attr |-> a]
    ELSE [res |-> Ok(<<>>), attr |-> [a EXCEPT !.attr_type = "MultiValued"]]

set_domain(a, domain) == [a EXCEPT !.domain = domain]

clone_with_new_name(a, new_name) ==
    LET parsed == parse_domain(new_name)
        dom == IF parsed.ok THEN Unwrap(parsed.val)[1] ELSE a.domain
        name == IF parsed.ok THEN Unwrap(parsed.val)[2] ELSE new_name
    IN  [a EXCEPT !.name = name, !.domain = dom]

\* must_zpr_internal_attr[_mv] building from the name as given when the
\* "zpr." prefix is missing.
must_zpr_internal_lenient(name, value, multi) ==
    LET stripped == strip_prefix(name, ATTR_DOMAIN_ZPR_INTERNAL \o <<".">>)
        b0 == TupleAttrBuilder_new(IF IsNone(stripped) THEN name ELSE Unwrap(stripped))
        b1 == [b0 EXCEPT !.domain_fb = UseHint("ZprInternal")]
        b2 == IF multi THEN [b1 EXCEPT !.attr_type = "MultiValued"] ELSE b1
        b3 == [b2 EXCEPT !.values = Some(<<value>>)]
        r == TupleAttrBuilder_build(b3)
    IN  IF r.ok THEN [panicked |-> FALSE, attr |-> r.val]
        ELSE [panicked |-> TRUE, attr |-> None]

\* Attribute::must_zpr_internal_attr / must_zpr_internal_attr_mv (multi = TRUE):
\* [panicked, attr].
must_zpr_internal(name, value, multi) ==
    LET stripped == strip_prefix(name, ATTR_DOMAIN_ZPR_INTERNAL \o <<".">>)
    IN  IF IsNone(stripped) THEN [panicked |-> TRUE, attr |-> None]
        ELSE LET b0 == TupleAttrBuilder_new(Unwrap(stripped))
                 b1 == [b0 EXCEPT !.domain_fb = UseHint("ZprInternal")]
                 b2 == IF multi THEN [b1 EXCEPT !.attr_type = "MultiValued"] ELSE b1
                 b3 == [b2 EXCEPT !.values = Some(<<value>>)]
                 r == TupleAttrBuilder_build(b3)
             IN  IF r.ok THEN [panicked |-> FALSE, attr |-> r.val]
                 ELSE [panicked |-> TRUE, attr |-> None]

(***************************************************************************)
(* write_attributes (policy_types/writer.rs)                               *)
(***************************************************************************)
\* write_attributes choosing the operator from the values alone.
write_attributes_ignores_multi(attrs) ==
    [j \in 1..Len(attrs) |->
        LET vals == zpl_values(attrs[j])
        IN  [key |-> zpl_key(attrs[j]),
             op |-> IF Len(vals) = 0 \/ Len(vals[1]) = 0 THEN "Has" ELSE "Eq",
             value |-> vals]]

write_attributes(attrs) ==
    [j \in 1..Len(attrs) |->
        LET vals == zpl_values(attrs[j])
        IN  [key |-> zpl_key(attrs[j]),
             op |-> IF Len(vals) = 0 \/ Len(vals[1]) = 0 \/ is_multi_valued(attrs[j])
                    THEN "Has" ELSE "Eq",
             value |-> vals]]

(***************************************************************************)
(* JoinPolicy (policy_types/join.rs)                                       *)
(***************************************************************************)
PFlags_default == [node |-> FALSE, vs |-> FALSE, vs_dock |-> FALSE]

PFlags_node(is_vs_dock) == [node |-> TRUE, vs |-> FALSE, vs_dock |-> is_vs_dock]

PFlags_vs == [node |-> FALSE, vs |-> TRUE, vs_dock |-> FALSE]

PFlags_count(f) ==
    (IF f.node THEN 1 ELSE 0) + (IF f.vs THEN 1 ELSE 0) + (IF f.vs_dock THEN 1 ELSE 0)

\* One v1::scope: flag defaults to noFlag; port and portRange are the two members of
\* a union, so the member initialised last is the one on the wire.
write_scope(endpoint) ==
    LET flag == IF IsNone(endpoint.flag) THEN "noFlag"
                ELSE IF Unwrap(endpoint.flag) = "IcmpRequestReply" THEN "icmpRequestRepl"
                ELSE "udpOneWay"
        s0 == [protocol |-> endpoint.protocol, flag |-> flag, which |-> "port",
               port_num |-> 0, low |-> 0, high |-> 0]
        s1 == IF IsSome(endpoint.port)
              THEN [s0 EXCEPT !.which = "port", !.port_num = Unwrap(endpoint.port)]
              ELSE s0
    IN  IF IsSome(endpoint.port_range)
        THEN [s1 EXCEPT !.which = "portRange", !.port_num = 0,
                        !.low = Unwrap(endpoint.port_range)[1],
                        !.high = Unwrap(endpoint.port_range)[2]]
        ELSE s1

write_service_kind(kind) ==
    CASE kind.kind = "Authentication" -> [which |-> "auth", name |-> <<>>]
      [] kind.kind = "Regular" -> [which |-> "regular", name |-> <<>>]
      [] kind.kind = "BuiltIn" -> [which |-> "builtin", name |-> <<>>]
      [] kind.kind = "Visa" -> [which |-> "visa", name |-> <<>>]
      [] kind.kind = "Trusted" -> [which |-> "trusted", name |-> kind.api]

write_services_panics(services) ==
    \E i \in 1..Len(services) : services[i].kind.kind = "Undefined"

write_services(services) ==
    [i \in 1..Len(services) |->
        [id |-> services[i].id,
         endpoints |-> [j \in 1..Len(services[i].endpoints) |->
                           write_scope(services[i].endpoints[j])],
         kind |-> write_service_kind(services[i].kind)]]

join_flags(f) ==
    (IF f.node THEN <<"node">> ELSE <<>>)
        \o (IF f.vs THEN <<"vs">> ELSE <<>>)
        \o (IF f.vs_dock THEN <<"vsdock">> ELSE <<>>)

\* WriteTo<v1::j_policy::Builder> for JoinPolicy: [panicked, msg]
JoinPolicy_write_to(jp) ==
    IF IsSome(jp.provides) /\ write_services_panics(Unwrap(jp.provides))
    THEN [panicked |-> TRUE, msg |-> None]
    ELSE [panicked |-> FALSE,
          msg |-> Some([match |-> write_attributes(jp.conditions),
                        provides |-> IF IsSome(jp.provides)
                                     THEN Some(write_services(Unwrap(jp.provides)))
                                     ELSE None,
                        flags |-> IF PFlags_count(jp.flags) > 0
                                  THEN Some(join_flags(jp.flags))
                                  ELSE None])]

(***************************************************************************)
(* Inputs of the attribute model                                           *)
(***************************************************************************)
MaxValues == 2

RawNameInputs ==
    {<<"e", "n", "d", "p", "o", "i", "n", "t", ".", "h">>,
     <<"u", "s", "e", "r", ".", "r">>,
     <<"s", "e", "r", "v", "i", "c", "e", ".", "t">>,
     <<"r">>,
     <<"z", "p", "r", ".", "r">>,
     <<"z", "p", "r", ".", "u", "s", "e", "r", ".", "r">>,
     <<"e", "n", "d", "p", "o", "i", "n", "t">>,
     <<"u", "s", "e", "r", ".">>}

ValueInputs == {<<>>, <<"a">>, <<"b">>}

ValueListInputs == UNION {[1..n -> ValueInputs] : n \in 0..MaxValues}

\* Conditions already in the list when the attribute under construction is added.
CondPrefixInputs ==
    {<<>>,
     <<[domain |-> "Endpoint", name |-> <<"h">>, values |-> None, attr_type |-> "Tag",
        optional |-> FALSE]>>}

\* The join policies written: flags and provides.
JoinInputs ==
    LET scope == [protocol |-> 6, flag |-> None, port |-> Some(443), port_range |-> None]
    IN  {[flags |-> PFlags_default, provides |-> None],
         [flags |-> PFlags_node(TRUE),
          provides |-> Some(<<[id |-> <<"s">>, endpoints |-> <<scope>>,
                               kind |-> [kind |-> "Regular"]]>>)],
         [flags |-> PFlags_vs,
          provides |-> Some(<<[id |-> <<"s">>, endpoints |-> <<scope>>,
                               kind |-> [kind |-> "Trusted", api |-> <<"v">>]],
                              [id |-> <<"u">>, endpoints |-> <<>>,
                               kind |-> [kind |-> "Undefined"]]>>)]}

\* The names an attribute is renamed to.
NewNameInputs ==
    {<<"u", "s", "e", "r", ".", "r">>, <<"r">>, <<"z", "p", "r", ".", "r">>}

(***************************************************************************)
(* The attribute model as a state machine: a builder is created and        *)
(* configured, build() yields an Attribute or an error, the Attribute is   *)
(* changed through its setters, projected to strings and written out.      *)
(***************************************************************************)
AttrInit == VisaIdle /\ RespIdle /\ AttrIdle /\ ConnIdle /\ AuthIdle /\ CallIdle

\* Attribute::tag(name)
Tag ==
    /\ apc = "idle"
    /\ \E n \in RawNameInputs : bld' = TagAttrBuilder_new(n)
    /\ apc' = "building"
    /\ aop' = "tag"
    /\ UNCHANGED <<attr, aerr, priv, zargs, proj, pout, visaVars, respVars, connVars, authVars, callVars>>

\* Attribute::tuple(name)
Tuple ==
    /\ apc = "idle"
    /\ \E n \in RawNameInputs : bld' = TupleAttrBuilder_new(n)
    /\ apc' = "building"
    /\ aop' = "tuple"
    /\ UNCHANGED <<attr, aerr, priv, zargs, proj, pout, visaVars, respVars, connVars, authVars, callVars>>

BuilderStep(b) ==
    /\ apc = "building"
    /\ bld' = b
    /\ aop' = "builder"
    /\ UNCHANGED <<apc, attr, aerr, priv, zargs, proj, pout, visaVars, respVars, connVars, authVars, callVars>>

\* TupleAttrBuilder::single / multi / multi_if
BuilderSingle == bld.kind = "tuple" /\ BuilderStep([bld EXCEPT !.attr_type = "SingleValued"])

BuilderMulti == bld.kind = "tuple" /\ BuilderStep([bld EXCEPT !.attr_type = "MultiValued"])

BuilderMultiIf ==
    /\ bld.kind = "tuple"
    /\ \E multi \in BOOLEAN :
           BuilderStep([bld EXCEPT !.attr_type = IF multi THEN "MultiValued" ELSE "SingleValued"])

\* TagAttrBuilder::optional, TupleAttrBuilder::optional
BuilderOptional ==
    /\ bld.kind \in {"tag", "tuple"}
    /\ \E optional \in BOOLEAN : BuilderStep([bld EXCEPT !.optional = optional])

\* TupleAttrBuilder::value / values / values_opt
BuilderValue ==
    /\ bld.kind = "tuple"
    /\ \E v \in ValueInputs : BuilderStep([bld EXCEPT !.values = Some(<<v>>)])

BuilderValues ==
    /\ bld.kind = "tuple"
    /\ \E vals \in ValueListInputs : BuilderStep([bld EXCEPT !.values = Some(vals)])

BuilderValuesOpt ==
    /\ bld.kind = "tuple"
    /\ \E opt_vals \in {None} \cup {Some(vals) : vals \in ValueListInputs} :
           BuilderStep(IF IsSome(opt_vals) THEN [bld EXCEPT !.values = opt_vals] ELSE bld)

\* TagAttrBuilder::domain_hint, TupleAttrBuilder::domain_hint
BuilderDomainHint ==
    /\ bld.kind \in {"tag", "tuple"}
    /\ \E hint \in AttrDomains : BuilderStep([bld EXCEPT !.domain_fb = UseHint(hint)])

\* TagAttrBuilder::allow_unspecified, TupleAttrBuilder::allow_unspecified
BuilderAllowUnspecified ==
    /\ bld.kind \in {"tag", "tuple"}
    /\ BuilderStep([bld EXCEPT !.domain_fb = UseUnspecified])

\* TagAttrBuilder::build, TupleAttrBuilder::build.  The consumed builder stays
\* visible until the attribute is next changed.
Build ==
    /\ apc = "building"
    /\ LET r == IF bld.kind = "tag" THEN TagAttrBuilder_build(bld) ELSE TupleAttrBuilder_build(bld)
       IN  /\ attr' = r.val
           /\ aerr' = r.err
           /\ apc' = IF r.ok THEN "built" ELSE "failed"
    /\ aop' = "build"
    /\ UNCHANGED <<bld, priv, zargs, proj, pout, visaVars, respVars, connVars, authVars, callVars>>

MustZprInternal(multi) ==
    /\ apc = "idle"
    /\ \E name \in RawNameInputs, value \in ValueInputs :
           LET r == must_zpr_internal(name, value, multi)
           IN  /\ attr' = r.attr
               /\ apc' = IF r.panicked THEN "panicked" ELSE "built"
               /\ priv' = ~r.panicked
               /\ zargs' = Some([name |-> name, value |-> value])
    /\ aop' = IF multi THEN "must_zpr_internal_attr_mv" ELSE "must_zpr_internal_attr"
    /\ UNCHANGED <<bld, aerr, proj, pout, visaVars, respVars, connVars, authVars, callVars>>

\* Attribute::must_zpr_internal_attr
MustZprInternalAttr ==
    /\ apc = "idle"
    /\ MustZprInternal(FALSE)

\* Attribute::must_zpr_internal_attr_mv
MustZprInternalAttrMv ==
    /\ apc = "idle"
    /\ MustZprInternal(TRUE)

Mutate(a, err, op) ==
    /\ apc = "built"
    /\ attr' = Some(a)
    /\ aerr' = err
    /\ aop' = op
    /\ bld' = NoBuilder
    /\ proj' = None
    /\ pout' = None
    /\ UNCHANGED <<apc, priv, zargs, visaVars, respVars, connVars, authVars, callVars>>

\* Attribute::set_domain
SetDomain ==
    /\ apc = "built"
    /\ \E domain \in AttrDomains : Mutate(set_domain(Unwrap(attr), domain), None, "set_domain")

\* Attribute::set_multi_valued
SetMultiValued ==
    /\ apc = "built"
    /\ LET r == set_multi_valued(Unwrap(attr))
       IN  Mutate(r.attr, r.res.err, "set_multi_valued")

\* attr.optional = b (the field is public)
SetOptional ==
    /\ apc = "built"
    /\ \E b \in BOOLEAN : Mutate([Unwrap(attr) EXCEPT !.optional = b], None, "optional")

\* Attribute::clone_with_new_name; the caller goes on with the clone.
CloneWithNewName ==
    /\ apc = "built"
    /\ \E new_name \in NewNameInputs :
           Mutate(clone_with_new_name(Unwrap(attr), new_name), None, "clone_with_new_name")

\* The string projections of the attribute.
Project ==
    /\ apc = "built"
    /\ proj' = Some([to_schema_string |-> to_schema_string(Unwrap(attr)),
                     to_instance_string |-> to_instance_string(Unwrap(attr)),
                     zpl_key |-> zpl_key(Unwrap(attr)),
                     zpl_value |-> zpl_value(Unwrap(attr)),
                     zpl_values |-> zpl_values(Unwrap(attr)),
                     zplc_key |-> zplc_key(Unwrap(attr))])
    /\ pout' = None
    /\ UNCHANGED <<apc, bld, attr, aerr, aop, priv, zargs, visaVars, respVars, connVars, authVars, callVars>>

\* write_attributes(attrs, conds): it returns (), so the call has no error outcome.
WriteAttributes ==
    /\ apc = "built"
    /\ \E pre \in CondPrefixInputs :
           LET attrs == pre \o <<Unwrap(attr)>>
           IN  pout' = Some([call |-> "write_attributes", attrs |-> attrs, panicked |-> FALSE,
                             conds |-> write_attributes(attrs)])
    /\ proj' = None
    /\ UNCHANGED <<apc, bld, attr, aerr, aop, priv, zargs, visaVars, respVars, connVars, authVars, callVars>>

\* JoinPolicy{conditions, flags, provides}.write_to(builder)
WriteJoinPolicy ==
    /\ apc = "built"
    /\ \E fp \in JoinInputs :
           LET jp == [conditions |-> <<Unwrap(attr)>>, flags |-> fp.flags,
                      provides |-> fp.provides]
               r == JoinPolicy_write_to(jp)
           IN  pout' = Some([call |-> "write_to", attrs |-> jp.conditions, policy |-> jp,
                             panicked |-> r.panicked,
                             conds |-> IF r.panicked THEN <<>> ELSE Unwrap(r.msg).match,
                             msg |-> r.msg])
    /\ proj' = None
    /\ UNCHANGED <<apc, bld, attr, aerr, aop, priv, zargs, visaVars, respVars, connVars, authVars, callVars>>

AttrNext ==
    \/ Tag
    \/ Tuple
    \/ BuilderSingle
    \/ BuilderMulti
    \/ BuilderMultiIf
    \/ BuilderOptional
    \/ BuilderValue
    \/ BuilderValues
    \/ BuilderValuesOpt
    \/ BuilderDomainHint
    \/ BuilderAllowUnspecified
    \/ Build
    \/ MustZprInternalAttr
    \/ MustZprInternalAttrMv
    \/ SetDomain
    \/ SetMultiValued
    \/ SetOptional
    \/ CloneWithNewName
    \/ Project
    \/ WriteAttributes
    \/ WriteJoinPolicy

SpecAttr == AttrInit /\ [][AttrNext]_vars

(***************************************************************************)
(* ConnectRequest and the legacy struct (vsapi_types/request.rs, and the   *)
(* single-file vsapi_types.rs).  A BTreeMap<String, String> is a function  *)
(* from its key set; a Vec<u8> is a sequence of bytes.                     *)
(***************************************************************************)
MaxClaims == 3

\* BTreeMap::iter: the entries in ascending key order.
RECURSIVE BTreeMap_iter(_)
BTreeMap_iter(m) ==
    IF DOMAIN m = {} THEN <<>>
    ELSE LET k == CHOOSE x \in DOMAIN m : \A y \in DOMAIN m : ~str_lt(y, x)
         IN  <<[key |-> k, value |-> m[k]]>>
                 \o BTreeMap_iter([x \in DOMAIN m \ {k} |-> m[x]])

\* The claims loop with insert keeping the value already stored.
RECURSIVE claims_to_map_first_wins(_)
claims_to_map_first_wins(claims) ==
    IF Len(claims) = 0 THEN <<>>
    ELSE LET m == claims_to_map_first_wins(SubSeq(claims, 1, Len(claims) - 1))
             c == claims[Len(claims)]
         IN  [x \in DOMAIN m \cup {c.key} |-> IF x \in DOMAIN m THEN m[x] ELSE c.value]

\* for claim in req.claims { claims.insert(claim.key, claim.value); }
RECURSIVE claims_to_map(_)
claims_to_map(claims) ==
    IF Len(claims) = 0 THEN <<>>
    ELSE LET m == claims_to_map(SubSeq(claims, 1, Len(claims) - 1))
             c == claims[Len(claims)]
         IN  [x \in DOMAIN m \cup {c.key} |-> IF x = c.key THEN c.value ELSE m[x]]

\* ZprSelfSignedBlob::default() with the challenge set.
SelfSignedBlob(challenge) ==
    [kind |-> "SS", alg |-> "RsaSha256Pkcs1v15", challenge |-> challenge, cn |-> <<>>,
     timestamp |-> 0, signature |-> <<>>]

\* TryFrom<vsapi::ConnectRequest> for ConnectRequest (vsapi_types.rs)
ConnectRequest_try_from_thrift(t) ==
    IF IsNone(t.dock_addr) THEN Err("DeserializationError", "No dock address")
    ELSE IF ~ip_addr_from_vec(Unwrap(t.dock_addr)).ok
    THEN Propagate(ip_addr_from_vec(Unwrap(t.dock_addr)))
    ELSE IF IsNone(t.claims) THEN Err("DeserializationError", "No claims")
    ELSE IF IsNone(t.challenge_responses)
    THEN Err("DeserializationError", "No challenge responses")
    ELSE LET cr == Unwrap(t.challenge_responses)
         IN  Ok([blobs |-> [i \in 1..Len(cr) |-> SelfSignedBlob(cr[i])],
                 claims |-> BTreeMap_iter(Unwrap(t.claims)),
                 substrate_addr |-> Unwrap(ip_addr_from_vec(Unwrap(t.dock_addr)).val),
                 dock_interface |-> 0])

\* The ConnectRequestV1 decoder taking absent claims as no claims.
ConnectRequestV1_try_from_thrift_claims_optional(t) ==
    IF IsNone(t.dock_addr) THEN Err("DeserializationError", "No dock addr")
    ELSE IF ~ip_addr_from_vec(Unwrap(t.dock_addr)).ok
    THEN Propagate(ip_addr_from_vec(Unwrap(t.dock_addr)))
    ELSE IF IsNone(t.challenge_responses)
    THEN Err("DeserializationError", "No challenge responses")
    ELSE IF IsNone(t.connection_id) THEN Err("DeserializationError", "No connection_id")
    ELSE Ok([challenge_responses |-> Unwrap(t.challenge_responses),
             claims |-> IF IsNone(t.claims) THEN <<>> ELSE BTreeMap_iter(Unwrap(t.claims)),
             dock_addr |-> Unwrap(ip_addr_from_vec(Unwrap(t.dock_addr)).val),
             connection_id |-> Unwrap(t.connection_id)])

\* TryFrom<vsapi::ConnectRequest> for ConnectRequestV1 (request.rs)
ConnectRequestV1_try_from_thrift(t) ==
    IF IsNone(t.dock_addr) THEN Err("DeserializationError", "No dock addr")
    ELSE IF ~ip_addr_from_vec(Unwrap(t.dock_addr)).ok
    THEN Propagate(ip_addr_from_vec(Unwrap(t.dock_addr)))
    ELSE IF IsNone(t.claims) THEN Err("DeserializationError", "No claims")
    ELSE IF IsNone(t.challenge_responses)
    THEN Err("DeserializationError", "No challenge responses")
    ELSE IF IsNone(t.connection_id) THEN Err("DeserializationError", "No connection_id")
    ELSE Ok([challenge_responses |-> Unwrap(t.challenge_responses),
             claims |-> BTreeMap_iter(Unwrap(t.claims)),
             dock_addr |-> Unwrap(ip_addr_from_vec(Unwrap(t.dock_addr)).val),
             connection_id |-> Unwrap(t.connection_id)])

\* TryFrom<ConnectRequest> for vsapi::ConnectRequest (vsapi_types.rs)
ConnectRequest_to_thrift(req) ==
    IF \E i \in 1..Len(req.blobs) : req.blobs[i].kind = "AC"
    THEN Err("DeserializationError", "Incorrect blob type")
    ELSE Ok([connection_id |-> Some(0),
             dock_addr |-> Some(req.substrate_addr.octets),
             claims |-> Some(claims_to_map(req.claims)),
             challenge |-> None,
             challenge_responses |->
                 Some([i \in 1..Len(req.blobs) |-> req.blobs[i].challenge])])

\* TryFrom<ConnectRequestV1> for vsapi::ConnectRequest (request.rs)
ConnectRequestV1_to_thrift(req) ==
    Ok([connection_id |-> Some(req.connection_id),
        dock_addr |-> Some(req.dock_addr.octets),
        claims |-> Some(claims_to_map(req.claims)),
        challenge |-> None,
        challenge_responses |-> Some(req.challenge_responses)])


\* vsapi::ConnectRequest values as they come off the wire.
ThriftConnectRequestInputs ==
    [connection_id : {None, Some(7)},
     dock_addr : {None, Some(Addr4a), Some(<<10, 0, 0, 0, 1>>)},
     claims : {None} \cup {Some(m) : m \in UNION {[K -> {<<"x">>, <<"y">>}] :
                                                K \in SUBSET {<<"a">>, <<"b">>}}},
     challenge : {None, Some(<<9>>)},
     challenge_responses : {None, Some(<<>>), Some(<<<<2, 2>>, <<1>>>>)}]

\* ConnectRequest (fmt "request") and ConnectRequestV1 (fmt "request_v1") values;
\* the claims are ordered lists in which a key may repeat.
ConnectRequestInputs ==
    LET
        ClaimsInputs ==
            UNION {[1..n -> [key : {<<"a">>, <<"b">>}, value : {<<"x">>, <<"y">>}]] : n \in 0..MaxClaims}
    IN
        [fmt : {"request"},
         msg : [blobs : {<<>>, <<SelfSignedBlob(<<2, 2>>), SelfSignedBlob(<<1>>)>>,
                         <<SelfSignedBlob(<<1>>), [kind |-> "AC"]>>},
                claims : ClaimsInputs, substrate_addr : {IpV4(Addr4a)}, dock_interface : {3}]]
        \cup [fmt : {"request_v1"},
              msg : [challenge_responses : {<<>>, <<<<2, 2>>, <<1>>>>},
                     claims : ClaimsInputs, dock_addr : {IpV6(Addr6a)}, connection_id : {7}]]

ConnInit ==
    /\ VisaIdle /\ RespIdle /\ AttrIdle /\ AuthIdle /\ CallIdle
    /\ conn_out = None
    /\ conn_back = None
    /\ \/ conn_in \in [fmt : {"thrift"}, msg : ThriftConnectRequestInputs]
       \/ conn_in \in ConnectRequestInputs

\* ConnectRequest::try_from(vsapi::ConnectRequest)
DecodeConnectRequest ==
    /\ conn_in.fmt = "thrift"
    /\ conn_out = None
    /\ conn_out' = Some([by |-> "request", res |-> ConnectRequest_try_from_thrift(conn_in.msg)])
    /\ UNCHANGED <<conn_in, conn_back, visaVars, respVars, attrVars, authVars, callVars>>

\* ConnectRequestV1::try_from(vsapi::ConnectRequest)
DecodeConnectRequestV1 ==
    /\ conn_in.fmt = "thrift"
    /\ conn_out = None
    /\ conn_out' =
           Some([by |-> "request_v1", res |-> ConnectRequestV1_try_from_thrift(conn_in.msg)])
    /\ UNCHANGED <<conn_in, conn_back, visaVars, respVars, attrVars, authVars, callVars>>

\* vsapi::ConnectRequest::try_from(ConnectRequest)
EncodeConnectRequest ==
    /\ conn_in.fmt = "request"
    /\ conn_out = None
    /\ conn_out' = Some([by |-> "request", res |-> ConnectRequest_to_thrift(conn_in.msg)])
    /\ UNCHANGED <<conn_in, conn_back, visaVars, respVars, attrVars, authVars, callVars>>

\* vsapi::ConnectRequest::try_from(ConnectRequestV1)
EncodeConnectRequestV1 ==
    /\ conn_in.fmt = "request_v1"
    /\ conn_out = None
    /\ conn_out' = Some([by |-> "request_v1", res |-> ConnectRequestV1_to_thrift(conn_in.msg)])
    /\ UNCHANGED <<conn_in, conn_back, visaVars, respVars, attrVars, authVars, callVars>>

\* The receiver decodes the encoded request with the same type's decoder.
DecodeEncodedConnectRequest ==
    /\ conn_in.fmt \in {"request", "request_v1"}
    /\ IsSome(conn_out)
    /\ Unwrap(conn_out).res.ok
    /\ conn_back = None
    /\ conn_back' =
           Some(IF conn_in.fmt = "request"
                THEN ConnectRequest_try_from_thrift(Unwrap(Unwrap(conn_out).res.val))
                ELSE ConnectRequestV1_try_from_thrift(Unwrap(Unwrap(conn_out).res.val)))
    /\ UNCHANGED <<conn_in, conn_out, visaVars, respVars, attrVars, authVars, callVars>>

ConnNext ==
    \/ DecodeConnectRequest
    \/ DecodeConnectRequestV1
    \/ EncodeConnectRequest
    \/ EncodeConnectRequestV1
    \/ DecodeEncodedConnectRequest

SpecConn == ConnInit /\ [][ConnNext]_vars


(***************************************************************************)
(* Properties of the attribute model                                       *)
(***************************************************************************)
\* C5: every attribute passed to write_attributes is emitted with key =
\* zpl_key(), values = zpl_values() and op = Has exactly when the values are
\* empty, or the first value is the empty string, or the attribute is
\* multi-valued, and op = Eq otherwise; a tag is emitted with Eq and exactly
\* one value.
C5_WriteAttributesExpression ==
    (IsSome(pout) /\ ~Unwrap(pout).panicked) =>
        LET o == Unwrap(pout)
        IN  /\ DOMAIN o.conds = 1..Len(o.attrs)
            /\ \A j \in 1..Len(o.attrs) :
                   LET a == o.attrs[j]
                       e == o.conds[j]
                   IN  /\ e.key = zpl_key(a)
                       /\ e.value = zpl_values(a)
                       /\ e.op \in {"Has", "Eq"}
                       /\ (e.op = "Has") <=>
                              \/ Len(e.value) = 0
                              \/ e.value[1] = <<>>
                              \/ a.attr_type = "MultiValued"
                       /\ (a.attr_type = "Tag") => (e.op = "Eq" /\ Len(e.value) = 1)

\* C5 witness: a multi-valued attribute with two non-empty values has been
\* written by write_attributes with op = Has.
C5_Witness ==
    /\ IsSome(pout)
    /\ Unwrap(pout).call = "write_attributes"
    /\ \E j \in 1..Len(Unwrap(pout).attrs) :
           LET a == Unwrap(pout).attrs[j]
           IN  /\ a.attr_type = "MultiValued"
               /\ IsSome(a.values)
               /\ Len(Unwrap(a.values)) = 2
               /\ \A i \in 1..2 : Unwrap(a.values)[i] # <<>>
               /\ Unwrap(pout).conds[j].op = "Has"

\* C6: a Tag carries no values and stays a Tag, set_multi_valued on a tag
\* returns InvalidOperation and changes nothing, and a non-tag attribute
\* holding more than one value is MultiValued, also when single() was called.
C6_TagAndMultiplicity ==
    /\ [](IsSome(attr) =>
            LET a == Unwrap(attr)
            IN  /\ (a.attr_type = "Tag") => (a.values = None)
                /\ (a.attr_type # "Tag" /\ IsSome(a.values) /\ Len(Unwrap(a.values)) > 1)
                       => (a.attr_type = "MultiValued"))
    /\ [][(IsSome(attr) /\ Unwrap(attr).attr_type = "Tag") =>
            /\ IsSome(attr')
            /\ Unwrap(attr').attr_type = "Tag"
            /\ SetMultiValued =>
                   /\ attr' = attr
                   /\ IsSome(aerr')
                   /\ Unwrap(aerr').kind = "InvalidOperation"]_vars

\* C6 witness: a tuple configured with two values and single() has been built
\* and is multi-valued.
C6_Witness ==
    /\ aop = "build"
    /\ bld.kind = "tuple"
    /\ bld.attr_type = "SingleValued"
    /\ IsSome(bld.values)
    /\ Len(Unwrap(bld.values)) = 2
    /\ IsSome(attr)
    /\ Unwrap(attr).attr_type = "MultiValued"
    /\ Unwrap(attr).values = bld.values

\* C7: build() resolves the raw name r under the fallback f: a leading
\* "endpoint.", "user." or "service." gives that domain and the rest of r as
\* the name, whatever f is; otherwise UseHint(d) gives (d, r), UseUnspecified
\* gives (Unspecified, r) and ErrorIfMissing fails with InvalidDomain(r) and
\* builds no Attribute.  A new builder's fallback is ErrorIfMissing.
C7_DomainResolution ==
    LET prefixes ==
            {[dom |-> "Endpoint", prefix |-> <<"e", "n", "d", "p", "o", "i", "n", "t", ".">>],
             [dom |-> "User", prefix |-> <<"u", "s", "e", "r", ".">>],
             [dom |-> "Service", prefix |-> <<"s", "e", "r", "v", "i", "c", "e", ".">>]}
        r == bld.raw_name
        f == bld.domain_fb
        matched == {p \in prefixes :
                       Len(r) >= Len(p.prefix) /\ SubSeq(r, 1, Len(p.prefix)) = p.prefix}
        built(d, n) ==
            /\ apc = "built"
            /\ IsSome(attr)
            /\ Unwrap(attr).domain = d
            /\ Unwrap(attr).name = n
            /\ aerr = None
    IN  /\ (aop \in {"tag", "tuple"}) => (f.kind = "ErrorIfMissing")
        /\ (aop = "build") =>
               IF matched # {}
               THEN \A p \in matched : built(p.dom, SubSeq(r, Len(p.prefix) + 1, Len(r)))
               ELSE CASE f.kind = "UseHint" -> built(f.hint, r)
                      [] f.kind = "UseUnspecified" -> built("Unspecified", r)
                      [] f.kind = "ErrorIfMissing" ->
                             /\ apc = "failed"
                             /\ attr = None
                             /\ aerr = Some([kind |-> "InvalidDomain", msg |-> r])

\* C7 witness: build() of a builder left at its default fallback, whose raw
\* name has no domain prefix, has failed with InvalidDomain.
C7_Witness ==
    /\ aop = "build"
    /\ apc = "failed"
    /\ bld.raw_name = <<"r">>
    /\ bld.domain_fb.kind = "ErrorIfMissing"
    /\ attr = None
    /\ aerr = Some([kind |-> "InvalidDomain", msg |-> <<"r">>])

\* C8: for a tag with domain d and name n, to_instance_string() is "#d.n",
\* zpl_key() is "d.zpr.tag" and zpl_value() is "d.n"; for a non-tag attribute
\* zpl_key() is exactly "d.n", whatever its multiplicity, optional flag or
\* values.
C8_PolicyLanguageKey ==
    IsSome(proj) =>
        LET a == Unwrap(attr)
            p == Unwrap(proj)
            d == CASE a.domain = "Endpoint" -> <<"e", "n", "d", "p", "o", "i", "n", "t">>
                   [] a.domain = "User" -> <<"u", "s", "e", "r">>
                   [] a.domain = "Service" -> <<"s", "e", "r", "v", "i", "c", "e">>
                   [] a.domain = "ZprInternal" -> <<"z", "p", "r">>
                   [] a.domain = "Unspecified" -> <<"U", "N", "S", "P", "E", "C", "I", "F", "I", "E", "D">>
            dn == d \o <<".">> \o a.name
        IN  IF a.attr_type = "Tag"
            THEN /\ p.to_instance_string = <<"#">> \o dn
                 /\ p.zpl_key = d \o <<".", "z", "p", "r", ".", "t", "a", "g">>
                 /\ p.zpl_value = dn
            ELSE p.zpl_key = dn

\* C8 witness: the tag endpoint.h has been projected to "#endpoint.h", the key
\* "endpoint.zpr.tag" and the value "endpoint.h".
C8_Witness ==
    /\ IsSome(proj)
    /\ Unwrap(attr).attr_type = "Tag"
    /\ Unwrap(attr).domain = "Endpoint"
    /\ Unwrap(attr).name = <<"h">>
    /\ Unwrap(proj).zpl_key = <<"e", "n", "d", "p", "o", "i", "n", "t", ".", "z", "p", "r", ".", "t", "a", "g">>
    /\ Unwrap(proj).zpl_value = <<"e", "n", "d", "p", "o", "i", "n", "t", ".", "h">>
    /\ Unwrap(proj).to_instance_string = <<"#", "e", "n", "d", "p", "o", "i", "n", "t", ".", "h">>

\* C9: writing policy for a condition list that contains an attribute with
\* domain Unspecified emits no attribute expression.
C9_PolicyOutputRejectsUnspecified ==
    (IsSome(pout) /\ \E j \in 1..Len(Unwrap(pout).attrs) :
                         Unwrap(pout).attrs[j].domain = "Unspecified")
        => (DOMAIN Unwrap(pout).conds = {})

\* C10: an Attribute with domain ZprInternal comes from must_zpr_internal_attr
\* or must_zpr_internal_attr_mv.
C10_ZprInternalOnlyPrivileged ==
    (IsSome(attr) /\ Unwrap(attr).domain = "ZprInternal") => priv

\* C11: must_zpr_internal_attr and must_zpr_internal_attr_mv panic for every
\* name that does not start with "zpr."; the call returns neither an
\* attribute nor an Err.
C11_MustZprInternalPanics ==
    (aop \in {"must_zpr_internal_attr", "must_zpr_internal_attr_mv"}) =>
        LET name == Unwrap(zargs).name
            prefixed == Len(name) >= 4 /\ SubSeq(name, 1, 4) = <<"z", "p", "r", ".">>
        IN  (~prefixed) => (apc = "panicked" /\ attr = None /\ aerr = None /\ ~priv)

\* C11 witness: must_zpr_internal_attr_mv has panicked on the name "user.r".
C11_Witness ==
    /\ aop = "must_zpr_internal_attr_mv"
    /\ Unwrap(zargs).name = <<"u", "s", "e", "r", ".", "r">>
    /\ apc = "panicked"
    /\ attr = None

\* C12: for a name "zpr." + rest, must_zpr_internal_attr returns the
\* attribute (ZprInternal, rest, [value], single-valued, not optional) whose
\* zpl_key() and zplc_key() are the name; must_zpr_internal_attr_mv returns
\* the same attribute multi-valued, with zplc_key() = name + "{}".
C12_MustZprInternalResult ==
    (aop \in {"must_zpr_internal_attr", "must_zpr_internal_attr_mv"}) =>
        LET name == Unwrap(zargs).name
            multi == aop = "must_zpr_internal_attr_mv"
            prefixed == Len(name) >= 4 /\ SubSeq(name, 1, 4) = <<"z", "p", "r", ".">>
        IN  prefixed =>
                /\ apc = "built"
                /\ attr = Some([domain |-> "ZprInternal",
                                name |-> SubSeq(name, 5, Len(name)),
                                values |-> Some(<<Unwrap(zargs).value>>),
                                attr_type |-> IF multi THEN "MultiValued" ELSE "SingleValued",
                                optional |-> FALSE])
                /\ zpl_key(Unwrap(attr)) = name
                /\ zplc_key(Unwrap(attr)) = name \o (IF multi THEN <<"{", "}">> ELSE <<>>)

\* C13: to_schema_string() of a multi-valued attribute contains "{}" and
\* to_schema_string() of an attribute with optional = TRUE contains "?".
C13_SchemaStringHints ==
    IsSome(proj) =>
        LET a == Unwrap(attr)
            str == Unwrap(proj).to_schema_string
            contains(sub) ==
                \E i \in 1..Len(str) :
                    i + Len(sub) - 1 <= Len(str) /\ SubSeq(str, i, i + Len(sub) - 1) = sub
        IN  /\ (a.attr_type = "MultiValued") => contains(<<"{", "}">>)
            /\ a.optional => contains(<<"?">>)

\* C14: zplc_key() is "#" for a tag, then "<domain>.<name>", then "{}" for a
\* multi-valued attribute, and nothing else: no "?", and the same for every
\* choice of values and of the optional flag.
C14_ZplcKey ==
    IsSome(proj) =>
        LET a == Unwrap(attr)
            d == CASE a.domain = "Endpoint" -> <<"e", "n", "d", "p", "o", "i", "n", "t">>
                   [] a.domain = "User" -> <<"u", "s", "e", "r">>
                   [] a.domain = "Service" -> <<"s", "e", "r", "v", "i", "c", "e">>
                   [] a.domain = "ZprInternal" -> <<"z", "p", "r">>
                   [] a.domain = "Unspecified" -> <<"U", "N", "S", "P", "E", "C", "I", "F", "I", "E", "D">>
            expected == (IF a.attr_type = "Tag" THEN <<"#">> ELSE <<>>)
                            \o d \o <<".">> \o a.name
                            \o (IF a.attr_type = "MultiValued" THEN <<"{", "}">> ELSE <<>>)
        IN  /\ Unwrap(proj).zplc_key = expected
            /\ \A i \in 1..Len(Unwrap(proj).zplc_key) : Unwrap(proj).zplc_key[i] # "?"

\* C14 witness: an optional multi-valued attribute holding values has been
\* projected to "user.r{}".
C14_Witness ==
    /\ IsSome(proj)
    /\ Unwrap(attr).optional
    /\ Unwrap(attr).attr_type = "MultiValued"
    /\ IsSome(Unwrap(attr).values)
    /\ Len(Unwrap(Unwrap(attr).values)) = 2
    /\ Unwrap(proj).zplc_key = <<"u", "s", "e", "r", ".", "r", "{", "}">>

\* C15: zpl_values() of a tag is ["<domain>.<name>"]; of a non-tag attribute
\* it is the stored values as a multiset, in ascending byte order, and empty
\* when nothing is stored; it is the same for every order of the stored
\* values, and calling it leaves the attribute unchanged.
C15_ZplValuesSorted ==
    /\ [](IsSome(proj) =>
            LET a == Unwrap(attr)
                out == Unwrap(proj).zpl_values
                count(x, v) == Cardinality({i \in 1..Len(v) : v[i] = x})
            IN  IF a.attr_type = "Tag"
                THEN out = <<AttrDomain_fmt(a.domain) \o <<".">> \o a.name>>
                ELSE IF a.values = None
                THEN out = <<>>
                ELSE LET v == Unwrap(a.values)
                     IN  /\ Len(out) = Len(v)
                         /\ \A i \in 1..Len(v) : count(v[i], out) = count(v[i], v)
                         /\ \A i \in 1..Len(out) : \A j \in i..Len(out) : ~str_lt(out[j], out[i])
                         /\ \A f \in [1..Len(v) -> 1..Len(v)] :
                                (\A i \in 1..Len(v) : \E j \in 1..Len(v) : f[j] = i) =>
                                    zpl_values([a EXCEPT !.values =
                                                   Some([i \in 1..Len(v) |-> v[f[i]]])]) = out)
    /\ [][Project => attr' = attr]_vars

\* C15 witness: the values ["b", "a"] have been projected to ["a", "b"] and
\* are still stored as ["b", "a"].
C15_Witness ==
    /\ IsSome(proj)
    /\ Unwrap(attr).values = Some(<<<<"b">>, <<"a">>>>)
    /\ Unwrap(proj).zpl_values = <<<<"a">>, <<"b">>>>

\* C16: a DenyCode other than Fail converted to the current wire code and
\* back is itself; Fail is sent as NoReason and comes back as NoReason; a
\* decoded current-format response never carries Fail; a legacy response with
\* status FAIL decodes to Deny with code Fail and the reason of the wire.
C16_DenyCodeTable ==
    /\ IsSome(deny_rt) =>
           LET t == Unwrap(deny_rt)
           IN  IF t.code = "Fail"
               THEN t.wire = "noReason" /\ t.back = "NoReason"
               ELSE t.back = t.code
    /\ (resp_in.fmt = "v1" /\ IsSome(resp_out)) =>
           ((Unwrap(resp_out).ok /\ Unwrap(Unwrap(resp_out).val).kind = "Deny")
               => Unwrap(Unwrap(resp_out).val).denied.code # "Fail")
    /\ (resp_in.fmt = "legacy" /\ IsSome(resp_out) /\ resp_in.msg.status = Some("FAIL")) =>
               resp_out = Some(Ok([kind |-> "Deny",
                                   denied |-> [code |-> "Fail", reason |-> resp_in.msg.reason]]))

\* C16 witness: Fail has been converted to noReason and back to NoReason, and
\* a legacy FAIL response with a reason has been decoded.
C16_Witness ==
    /\ deny_rt = Some([code |-> "Fail", wire |-> "noReason", back |-> "NoReason"])
    /\ resp_in.fmt = "legacy"
    /\ resp_in.msg.status = Some("FAIL")
    /\ IsSome(resp_in.msg.reason)
    /\ IsSome(resp_out)

(***************************************************************************)
(* Properties of the ConnectRequest conversions                            *)
(***************************************************************************)
\* C17 (as stated): decoding a legacy ConnectRequest without claims fails
\* with a DeserializationError naming claims, and decoding one with every
\* field present succeeds with one blob per challenge response, in order,
\* and one claim per entry of the claims mapping.
C17_LegacyConnectRequestAsStated ==
    (conn_in.fmt = "thrift" /\ IsSome(conn_out)) =>
        LET t == conn_in.msg
            r == Unwrap(conn_out).res
        IN  /\ IsNone(t.claims) =>
                   (~r.ok /\ Unwrap(r.err) = [kind |-> "DeserializationError", msg |-> "No claims"])
            /\ (/\ IsSome(t.connection_id) /\ IsSome(t.dock_addr) /\ IsSome(t.claims)
                /\ IsSome(t.challenge) /\ IsSome(t.challenge_responses)) => r.ok

\* C17: decoding a legacy ConnectRequest without claims fails with a
\* DeserializationError, which names claims when dock_addr is present with 4
\* or 16 bytes; decoding one with every field present and a dock_addr of 4 or
\* 16 bytes succeeds, with one blob (challenge response) per wire challenge
\* response in the same order and exactly one claim per entry of the wire
\* claims mapping.
C17_LegacyConnectRequest ==
    (conn_in.fmt = "thrift" /\ IsSome(conn_out)) =>
        LET t == conn_in.msg
            r == Unwrap(conn_out).res
            addr_ok == IsSome(t.dock_addr) /\ Len(Unwrap(t.dock_addr)) \in {4, 16}
        IN  /\ IsNone(t.claims) =>
                   /\ ~r.ok
                   /\ Unwrap(r.err).kind = "DeserializationError"
                   /\ addr_ok => (Unwrap(r.err).msg = "No claims")
            /\ (/\ IsSome(t.connection_id) /\ addr_ok /\ IsSome(t.claims)
                /\ IsSome(t.challenge) /\ IsSome(t.challenge_responses)) =>
                   /\ r.ok
                   /\ LET req == Unwrap(r.val)
                          cr == Unwrap(t.challenge_responses)
                          m == Unwrap(t.claims)
                      IN  /\ IF Unwrap(conn_out).by = "request"
                             THEN /\ Len(req.blobs) = Len(cr)
                                  /\ \A i \in 1..Len(cr) :
                                         /\ req.blobs[i].kind = "SS"
                                         /\ req.blobs[i].challenge = cr[i]
                             ELSE req.challenge_responses = cr
                          /\ Len(req.claims) = Cardinality(DOMAIN m)
                          /\ \A k \in DOMAIN m :
                                 \E i \in 1..Len(req.claims) :
                                     req.claims[i] = [key |-> k, value |-> m[k]]

\* C17 witness: a legacy request with a well-formed dock_addr and no claims
\* has been refused by the ConnectRequestV1 decoder with "No claims".
C17_Witness ==
    /\ conn_in.fmt = "thrift"
    /\ IsNone(conn_in.msg.claims)
    /\ conn_in.msg.dock_addr = Some(Addr4a)
    /\ IsSome(conn_out)
    /\ Unwrap(conn_out).by = "request_v1"
    /\ Unwrap(conn_out).res = Err("DeserializationError", "No claims")

\* C18: encoding a connect request to the legacy form never fails because of
\* a repeated key; the claims mapping has exactly the keys of the claims list
\* and maps each key to the value of its last occurrence; decoding the result
\* gives exactly one claim per distinct key.
C18_ClaimsLastWriteWins ==
    (conn_in.fmt \in {"request", "request_v1"} /\ IsSome(conn_out)) =>
        LET claims == conn_in.msg.claims
            keys == {claims[i].key : i \in 1..Len(claims)}
            last(k) == CHOOSE i \in 1..Len(claims) :
                           /\ claims[i].key = k
                           /\ \A j \in (i + 1)..Len(claims) : claims[j].key # k
            r == Unwrap(conn_out).res
        IN  /\ r.ok <=> (conn_in.fmt = "request_v1"
                            \/ \A i \in 1..Len(conn_in.msg.blobs) :
                                   conn_in.msg.blobs[i].kind # "AC")
            /\ r.ok =>
                   /\ IsSome(Unwrap(r.val).claims)
                   /\ DOMAIN Unwrap(Unwrap(r.val).claims) = keys
                   /\ \A k \in keys : Unwrap(Unwrap(r.val).claims)[k] = claims[last(k)].value
            /\ IsSome(conn_back) =>
                   /\ Unwrap(conn_back).ok
                   /\ LET back == Unwrap(Unwrap(conn_back).val).claims
                      IN  /\ Len(back) = Cardinality(keys)
                          /\ \A k \in keys :
                                 Cardinality({i \in 1..Len(back) : back[i].key = k}) = 1
                          /\ \A i \in 1..Len(back) :
                                 /\ back[i].key \in keys
                                 /\ back[i].value = claims[last(back[i].key)].value

\* C18 witness: the claims [(a, x), (b, y), (a, y)] have been encoded to the
\* mapping a -> y, b -> y and decoded to two claims.
C18_Witness ==
    /\ conn_in.fmt = "request_v1"
    /\ conn_in.msg.claims = <<[key |-> <<"a">>, value |-> <<"x">>],
                              [key |-> <<"b">>, value |-> <<"y">>],
                              [key |-> <<"a">>, value |-> <<"y">>]>>
    /\ IsSome(conn_out)
    /\ Unwrap(Unwrap(Unwrap(conn_out).res.val).claims)[<<"a">>] = <<"y">>
    /\ IsSome(conn_back)
    /\ Len(Unwrap(Unwrap(conn_back).val).claims) = 2

(***************************************************************************)
(* AuthServicesList (vsapi_types/services.rs).  A SystemTime is the number *)
(* of clock ticks since UNIX_EPOCH.                                        *)
(***************************************************************************)
MaxClock == 3

\* AuthServicesList::update keeping the services it had.
AuthServicesList_update_appending(l, expiration, services) ==
    [expiration |-> expiration, services |-> l.services \o services]

\* AuthServicesList::update
AuthServicesList_update(l, expiration, services) ==
    [expiration |-> expiration, services |-> services]

\* AuthServicesList::is_expired with the expiration instant still valid.
is_expired_after(l, t) ==
    IF IsSome(l.expiration) THEN t > Unwrap(l.expiration) ELSE FALSE

\* AuthServicesList::is_expired; t is what SystemTime::now() returns.
is_expired(l, t) ==
    IF IsSome(l.expiration) THEN t >= Unwrap(l.expiration) ELSE FALSE

\* AuthServicesList::is_empty
is_empty(l) == Len(l.services) = 0

\* AuthServicesList::is_valid
is_valid(l, t) == ~is_empty(l) /\ ~is_expired(l, t)

AuthInit == VisaIdle /\ RespIdle /\ AttrIdle /\ ConnIdle /\ AuthIdle /\ CallIdle

\* list.update(expiration, services)
Update ==
    /\ LET sd(id) == [service_id |-> id, service_uri |-> <<"u">>, zpr_addr |-> IpV4(Addr4b)]
           ServicesInputs == {<<>>, <<sd(<<"a">>)>>, <<sd(<<"a">>), sd(<<"b">>)>>}
       IN  \E expiration \in {None} \cup {Some(t) : t \in 0..MaxClock},
              services \in ServicesInputs :
               /\ asl' = AuthServicesList_update(asl, expiration, services)
               /\ last_update' = Some([expiration |-> expiration, services |-> services,
                                       replaced |-> asl])
    /\ UNCHANGED <<now, aq, visaVars, respVars, attrVars, connVars, callVars>>

\* list.is_expired()
IsExpired ==
    /\ aq' = Some([op |-> "is_expired", now |-> now, list |-> asl, result |-> is_expired(asl, now)])
    /\ UNCHANGED <<asl, now, last_update, visaVars, respVars, attrVars, connVars, callVars>>

\* list.is_empty()
IsEmpty ==
    /\ aq' = Some([op |-> "is_empty", now |-> now, list |-> asl, result |-> is_empty(asl)])
    /\ UNCHANGED <<asl, now, last_update, visaVars, respVars, attrVars, connVars, callVars>>

\* list.is_valid()
IsValid ==
    /\ aq' = Some([op |-> "is_valid", now |-> now, list |-> asl, result |-> is_valid(asl, now)])
    /\ UNCHANGED <<asl, now, last_update, visaVars, respVars, attrVars, connVars, callVars>>

\* The system clock advances.
Tick ==
    /\ now < MaxClock
    /\ now' = now + 1
    /\ UNCHANGED <<asl, last_update, aq, visaVars, respVars, attrVars, connVars, callVars>>

AuthNext ==
    \/ Update
    \/ IsExpired
    \/ IsEmpty
    \/ IsValid
    \/ Tick

SpecAuth == AuthInit /\ [][AuthNext]_vars

C20_UpdateReplacesState ==
    /\ [](asl = IF IsSome(last_update)
                THEN [expiration |-> Unwrap(last_update).expiration,
                      services |-> Unwrap(last_update).services]
                ELSE [expiration |-> Some(0), services |-> <<>>])
    /\ [][(IsExpired \/ IsEmpty \/ IsValid \/ Tick) => asl' = asl]_vars

\* C20 witness: an update has replaced a list of two services by a list of
\* one, and a query has been answered since.
C20_Witness ==
    /\ IsSome(last_update)
    /\ Len(Unwrap(last_update).replaced.services) = 2
    /\ Unwrap(last_update).replaced.expiration = Some(1)
    /\ Len(Unwrap(last_update).services) = 1
    /\ Unwrap(last_update).expiration = None
    /\ Len(asl.services) = 1
    /\ asl.expiration = None
    /\ IsSome(aq)
    /\ Unwrap(aq).list = asl
    /\ now > 0

RECURSIVE DecimalValue(_)
DecimalValue(d) ==
    IF Len(d) = 0 THEN 0
    ELSE 10 * DecimalValue(SubSeq(d, 1, Len(d) - 1))
         + (CHOOSE n \in 0..9 : <<"0", "1", "2", "3", "4", "5", "6", "7", "8", "9">>[n + 1] = d[Len(d)])

\* Url::parse up to the port as it is written: the scheme, the host and the
\* port number after the last ":" of the authority, if there is one.
Url_split(s) ==
    LET Digits == {"0", "1", "2", "3", "4", "5", "6", "7", "8", "9"}
        SchemeChars == {"a", "b", "c", "d", "e", "f", "g", "h", "i", "j", "k", "l", "m",
                        "n", "o", "p", "q", "r", "s", "t", "u", "v", "w", "x", "y", "z"}
        First(t, c) == IF \E i \in 1..Len(t) : t[i] = c
                       THEN CHOOSE i \in 1..Len(t) : t[i] = c /\ \A j \in 1..(i - 1) : t[j] # c
                       ELSE Len(t) + 1
        Last(t, c) == IF \E i \in 1..Len(t) : t[i] = c
                      THEN CHOOSE i \in 1..Len(t) : t[i] = c /\ \A j \in (i + 1)..Len(t) : t[j] # c
                      ELSE 0
        colon == First(s, ":")
        scheme == SubSeq(s, 1, colon - 1)
        rest == SubSeq(s, colon + 1, Len(s))
        after == SubSeq(rest, 3, Len(rest))
        authority == SubSeq(after, 1, First(after, "/") - 1)
        pcolon == Last(authority, ":")
        host == IF pcolon = 0 THEN authority ELSE SubSeq(authority, 1, pcolon - 1)
        ptext == IF pcolon = 0 THEN <<>> ELSE SubSeq(authority, pcolon + 1, Len(authority))
    IN  IF colon > Len(s) \/ scheme = <<>> \/ \E i \in 1..Len(scheme) : scheme[i] \notin SchemeChars
        THEN Err("ParseError", "RelativeUrlWithoutBase")
        ELSE IF ~starts_with(rest, <<"/", "/">>)
        THEN Ok([scheme |-> scheme, host |-> None, port |-> None])
        ELSE IF host = <<>> THEN Err("ParseError", "EmptyHost")
        ELSE IF \E i \in 1..Len(ptext) : ptext[i] \notin Digits
        THEN Err("ParseError", "InvalidPort")
        ELSE IF ptext = <<>> THEN Ok([scheme |-> scheme, host |-> Some(host), port |-> None])
        ELSE IF DecimalValue(ptext) >= U16 THEN Err("ParseError", "InvalidPort")
        ELSE Ok([scheme |-> scheme, host |-> Some(host), port |-> Some(DecimalValue(ptext))])

\* Url::parse; a port that is the default port of a scheme Url knows is
\* not kept.
Url_parse(s) ==
    LET default_port(scheme) ==
            CASE scheme \in {<<"h", "t", "t", "p">>, <<"w", "s">>} -> Some(80)
              [] scheme \in {<<"h", "t", "t", "p", "s">>, <<"w", "s", "s">>} -> Some(443)
              [] scheme = <<"f", "t", "p">> -> Some(21)
              [] OTHER -> None
        r == Url_split(s)
    IN  IF ~r.ok THEN r
        ELSE LET u == Unwrap(r.val)
             IN  Ok([u EXCEPT !.port = IF @ = default_port(u.scheme) THEN None ELSE @])

\* ServiceDescriptor::get_socket_addr; the result is Option<SocketAddr>.
get_socket_addr(self) ==
    LET uri == Url_parse(self.service_uri)
    IN  IF ~uri.ok THEN None
        ELSE LET port == Unwrap(uri.val).port
             IN  IF IsNone(port) THEN None
                 ELSE Some([ip |-> self.zpr_addr, port |-> Unwrap(port)])

(***************************************************************************)
(* Legacy services list (vsapi_types/services.rs).  SystemTime is counted  *)
(* in seconds since the UNIX epoch, as `now` is.                           *)
(***************************************************************************)
\* TryFrom<vsapi::ServiceDescriptor> for ServiceDescriptor
ServiceDescriptor_try_from_thrift(value) ==
    IF value.type_ # "ACTOR_AUTHENTICATION"
    THEN Err("DeserializationError", "vsapi::ServiceDescriptor is not of type ACTOR_AUTHENTICATION")
    ELSE IF IsNone(value.address)
    THEN Err("DeserializationError", "vsapi::ServiceDescriptor addr is empty")
    ELSE LET zpr_addr == ip_addr_from_vec(Unwrap(value.address))
         IN  IF ~zpr_addr.ok THEN Propagate(zpr_addr)
             ELSE Ok([service_id |-> IF IsSome(value.service_id) THEN Unwrap(value.service_id)
                                     ELSE <<>>,
                      service_uri |-> IF IsSome(value.uri) THEN Unwrap(value.uri) ELSE <<>>,
                      zpr_addr |-> Unwrap(zpr_addr.val)])

\* TryFrom<vsapi::ServicesList>: `exp as u64` of a negative i64 is at least
\* 2^63 seconds, and UNIX_EPOCH + Duration panics on overflow.
AuthServicesList_try_from_thrift_panics(services_list) ==
    IsSome(services_list.expiration) /\ Unwrap(services_list.expiration) < 0

\* TryFrom<vsapi::ServicesList> for AuthServicesList
AuthServicesList_try_from_thrift(services_list) ==
    LET expiration == IF IsSome(services_list.expiration)
                      THEN Some(0 + Unwrap(services_list.expiration))
                      ELSE None
        svc_list == IF IsSome(services_list.services) THEN Unwrap(services_list.services)
                    ELSE <<>>
        converted == [i \in 1..Len(svc_list) |-> ServiceDescriptor_try_from_thrift(svc_list[i])]
        failed == {i \in 1..Len(svc_list) : ~converted[i].ok}
    IN  IF failed # {}
        THEN Propagate(converted[CHOOSE i \in failed : \A k \in failed : i <= k])
        ELSE Ok([expiration |-> expiration,
                 services |-> [i \in 1..Len(svc_list) |-> Unwrap(converted[i].val)]])

\* TryFrom<v1::sock_addr::Reader> for SockAddr
SockAddr_try_from_v1(reader) ==
    LET addr == ip_addr_from_reader(reader.addr)
    IN  IF ~addr.ok THEN Propagate(addr)
        ELSE Ok([addr |-> Unwrap(addr.val), port |-> reader.port])

(***************************************************************************)
(* PacketDesc from the v1 message (vsapi_types/packet.rs)                  *)
(***************************************************************************)
\* L3Type::new_from_addr
L3Type_new_from_addr(addr) == IF is_ipv4(addr) THEN L3Ipv4 ELSE L3Ipv6

\* The unwrap() calls of TryFrom<v1::packet_desc::Reader>: which() of either
\* address and get_comm_type() return Err(NotInSchema) on a value the schema
\* does not know.
PacketDesc_try_from_v1_panics(reader) ==
    LET known(a) == a.which \in {"v4", "v6"}
    IN  \/ ~known(reader.source_addr)
        \/ /\ ip_addr_from_reader(reader.source_addr).ok
           /\ ~known(reader.dest_addr)
        \/ /\ ip_addr_from_reader(reader.source_addr).ok
           /\ known(reader.dest_addr)
           /\ ip_addr_from_reader(reader.dest_addr).ok
           /\ reader.comm_type \notin {"bidirectional", "unidirectional", "rerequest"}

\* TryFrom<v1::packet_desc::Reader> for PacketDesc, when it does not panic.
PacketDesc_try_from_v1(reader) ==
    LET source == ip_addr_from_reader(reader.source_addr)
        dest == ip_addr_from_reader(reader.dest_addr)
    IN  IF ~source.ok THEN Propagate(source)
        ELSE IF ~dest.ok THEN Propagate(dest)
        ELSE Ok([five_tuple |-> [src_address |-> Unwrap(source.val),
                                 dst_address |-> Unwrap(dest.val),
                                 l3_type |-> L3Type_new_from_addr(Unwrap(source.val)),
                                 l4_protocol |-> reader.protocol,
                                 src_port |-> reader.source_port,
                                 dst_port |-> reader.dest_port],
                 comm_flags |-> CASE reader.comm_type = "bidirectional" -> [kind |-> "BiDirectional"]
                                  [] reader.comm_type = "unidirectional" -> [kind |-> "UniDirectional"]
                                  [] reader.comm_type = "rerequest" -> [kind |-> "ReRequest", id |-> 0]])

\* Nothing built, converted or asked yet.
IdleInit == VisaIdle /\ RespIdle /\ AttrIdle /\ ConnIdle /\ AuthIdle /\ CallIdle

\* descriptor.get_socket_addr()
GetSocketAddr ==
    /\ LET UriInputs == {<<"h", "t", "t", "p", "s", ":", "/", "/", "h", ":", "8", "4", "4", "3", "/", "a">>,
                         <<"n", "o", "t", "-", "a", "-", "u", "r", "i">>,
                         <<"h", "t", "t", "p", "s", ":", "/", "/", "h", "/", "a">>,
                         <<"h", "t", "t", "p", ":", "/", "/", "h", "/", "a">>,
                         <<"h", "t", "t", "p", ":", "/", "/", "h", ":", "8", "0", "8", "0", "/", "a">>,
                         <<"h", "t", "t", "p", "s", ":", "/", "/", "h", ":", "4", "4", "3", "/", "a">>,
                         <<"h", "t", "t", "p", ":", "/", "/", "h", ":", "8", "0">>,
                         <<"h", "t", "t", "p", ":", "/", "/", "h", ":", "9", "9", "9", "9", "9", "/", "a">>,
                         <<"s", "s", "h", ":", "/", "/", "h", ":", "2", "2", "/", "a">>,
                         <<"h", "t", "t", "p", ":", "/", "/", "1", "0", ".", "0", ".", "0", ".", "1", ":", "9", "4", "4", "3", "/", "a">>}
       IN  \E uri \in UriInputs, addr \in {IpV4(Addr4b), IpV6(Addr6a)} :
               LET self == [service_id |-> <<"a">>, service_uri |-> uri, zpr_addr |-> addr]
               IN  call' = Some([op |-> "get_socket_addr", self |-> self, after |-> self,
                                 result |-> get_socket_addr(self)])
    /\ UNCHANGED <<pflags, visaVars, respVars, attrVars, connVars, authVars>>

\* AuthServicesList::try_from(services_list); the caller keeps the decoded
\* list as its list of services.
DecodeServicesList ==
    /\ LET sd(t, a) == [type_ |-> t, service_id |-> Some(<<"a">>), uri |-> Some(<<"u">>),
                        address |-> a]
           good == sd("ACTOR_AUTHENTICATION", Some(Addr4b))
           ThriftServicesInputs ==
               {None, Some(<<>>), Some(<<good>>),
                Some(<<good, sd("ACTOR_AUTHENTICATION", Some(Addr6a))>>),
                Some(<<good, sd("ACTOR_AUTHENTICATION", Some(<<10, 0, 0>>))>>),
                Some(<<sd("ACTOR_AUTHENTICATION", None), sd("OTHER", Some(Addr4a))>>),
                Some(<<sd("OTHER", Some(Addr4a))>>)}
       IN  \E expiration \in {None, Some(-1), Some(0), Some(MaxClock)},
              services \in ThriftServicesInputs :
               LET input == [expiration |-> expiration, services |-> services]
                   panicked == AuthServicesList_try_from_thrift_panics(input)
                   result == AuthServicesList_try_from_thrift(input)
               IN  /\ call' = Some([op |-> "services_list_try_from", input |-> input,
                                    panicked |-> panicked,
                                    result |-> IF panicked THEN None ELSE Some(result)])
                   /\ asl' = IF ~panicked /\ result.ok THEN Unwrap(result.val) ELSE asl
    /\ UNCHANGED <<now, last_update, aq, pflags, visaVars, respVars, attrVars, connVars>>

\* PacketDesc::try_from(reader)
DecodePacketDesc ==
    /\ LET IpReaderInputs == {[which |-> "v4", data |-> Addr4a], [which |-> "v6", data |-> Addr6a],
                              [which |-> "v4", data |-> <<10, 0, 0>>],
                              [which |-> "v6", data |-> Addr4a],
                              [which |-> "unknown", data |-> <<>>]}
       IN  \E source_addr \in IpReaderInputs, dest_addr \in IpReaderInputs,
              comm_type \in {"bidirectional", "unidirectional", "rerequest", "unknown"},
              protocol \in {TCP, ICMP} :
               LET reader == [source_addr |-> source_addr, dest_addr |-> dest_addr,
                              source_port |-> 1024, dest_port |-> 443,
                              protocol |-> protocol, comm_type |-> comm_type]
                   panicked == PacketDesc_try_from_v1_panics(reader)
               IN  call' = Some([op |-> "packet_desc_try_from", input |-> reader,
                                 panicked |-> panicked,
                                 result |-> IF panicked THEN None
                                            ELSE Some(PacketDesc_try_from_v1(reader))])
    /\ UNCHANGED <<pflags, visaVars, respVars, attrVars, connVars, authVars>>

SvcNext ==
    \/ DecodeServicesList
    \/ IsExpired
    \/ IsValid
    \/ Tick

\* SockAddr::try_from(reader)
DecodeSockAddr ==
    /\ \E addr \in {[which |-> "v4", data |-> Addr4a], [which |-> "v6", data |-> Addr6a],
                     [which |-> "v4", data |-> <<10, 0, 0>>], [which |-> "v4", data |-> Addr6a],
                     [which |-> "v6", data |-> Addr4a], [which |-> "v6", data |-> <<>>],
                     [which |-> "unknown", data |-> <<>>]},
          port \in {0, 443} :
           LET reader == [addr |-> addr, port |-> port]
           IN  call' = Some([op |-> "sock_addr_try_from", input |-> reader,
                             result |-> SockAddr_try_from_v1(reader)])
    /\ UNCHANGED <<pflags, visaVars, respVars, attrVars, connVars, authVars>>

\* Visa::try_from(reader) on a message a peer sent.
DecodeVisa ==
    /\ \E reader \in V1VisaInputs :
           call' = Some([op |-> "visa_try_from", input |-> reader,
                         result |-> Visa_try_from_v1(reader)])
    /\ UNCHANGED <<pflags, visaVars, respVars, attrVars, connVars, authVars>>

PktNext ==
    \/ GetSocketAddr
    \/ DecodePacketDesc
    \/ DecodeSockAddr
    \/ DecodeVisa

SpecPkt == IdleInit /\ [][PktNext]_vars

SpecSvc == IdleInit /\ [][SvcNext]_vars

(***************************************************************************)
(* Join policy flags, scopes and services (policy_types/join.rs)           *)
(***************************************************************************)
\* PFlags::or losing the vs_dock flag of the other operand.
PFlags_or_drops_vs_dock(self, other) ==
    [node |-> self.node \/ other.node, vs |-> self.vs \/ other.vs, vs_dock |-> self.vs_dock]

\* PFlags::or; the value is self after the call.
PFlags_or(self, other) ==
    [node |-> self.node \/ other.node, vs |-> self.vs \/ other.vs,
     vs_dock |-> self.vs_dock \/ other.vs_dock]

\* TryFrom<v1::scope::Reader> for Scope
Scope_try_from_v1(reader) ==
    LET flag == CASE reader.flag = "noFlag" -> None
                  [] reader.flag = "udpOneWay" -> Some("UdpOneWay")
                  [] reader.flag = "icmpRequestRepl" -> Some("IcmpRequestReply")
                  [] OTHER -> None
    IN  CASE reader.which = "port" ->
                 Ok([protocol |-> reader.protocol, flag |-> flag,
                     port |-> Some(reader.port_num), port_range |-> None])
          [] reader.which = "portRange" ->
                 Ok([protocol |-> reader.protocol, flag |-> flag,
                     port |-> None, port_range |-> Some(<<reader.low, reader.high>>)])
          [] OTHER -> Err("NotInSchema", "scope")

\* TryFrom<v1::service::Reader> for Service answering Undefined for a kind the
\* schema does not know.
Service_try_from_v1_unknown_as_undefined(reader) ==
    LET scopes == [i \in 1..Len(reader.endpoints) |-> Scope_try_from_v1(reader.endpoints[i])]
        failed == {i \in 1..Len(scopes) : ~scopes[i].ok}
    IN  IF \E i \in 1..Len(reader.id) : reader.id[i] = "\\xff"
        THEN Err("Utf8Error", "id")
        ELSE IF failed # {} THEN Propagate(scopes[CHOOSE i \in failed : \A k \in failed : i <= k])
        ELSE Ok([id |-> reader.id,
                 endpoints |-> [i \in 1..Len(scopes) |-> Unwrap(scopes[i].val)],
                 kind |-> CASE reader.kind.which = "regular" -> [kind |-> "Regular"]
                            [] reader.kind.which = "trusted" ->
                                   [kind |-> "Trusted", api |-> reader.kind.name]
                            [] reader.kind.which = "auth" -> [kind |-> "Authentication"]
                            [] reader.kind.which = "visa" -> [kind |-> "Visa"]
                            [] reader.kind.which = "builtin" -> [kind |-> "BuiltIn"]
                            [] OTHER -> [kind |-> "Undefined"]])

\* TryFrom<v1::service::Reader> for Service; a text holding the byte 0xff is
\* not UTF-8.
Service_try_from_v1(reader) ==
    LET to_string(t) == IF \E i \in 1..Len(t) : t[i] = "\\xff" THEN Err("Utf8Error", "text")
                        ELSE Ok(t)
        id == to_string(reader.id)
        scopes == [i \in 1..Len(reader.endpoints) |-> Scope_try_from_v1(reader.endpoints[i])]
        failed == {i \in 1..Len(scopes) : ~scopes[i].ok}
        name == to_string(reader.kind.name)
        service(kind) == Ok([id |-> Unwrap(id.val),
                             endpoints |-> [i \in 1..Len(scopes) |-> Unwrap(scopes[i].val)],
                             kind |-> kind])
    IN  IF ~id.ok THEN Propagate(id)
        ELSE IF failed # {} THEN Propagate(scopes[CHOOSE i \in failed : \A k \in failed : i <= k])
        ELSE CASE reader.kind.which = "regular" -> service([kind |-> "Regular"])
               [] reader.kind.which = "trusted" ->
                      IF ~name.ok THEN Propagate(name)
                      ELSE service([kind |-> "Trusted", api |-> Unwrap(name.val)])
               [] reader.kind.which = "auth" -> service([kind |-> "Authentication"])
               [] reader.kind.which = "visa" -> service([kind |-> "Visa"])
               [] reader.kind.which = "builtin" -> service([kind |-> "BuiltIn"])
               [] OTHER -> Err("NotInSchema", "service kind")

\* PFlags::default(), PFlags::node(is_vs_dock) or PFlags::vs()
NewFlags ==
    /\ \E f \in {PFlags_default, PFlags_node(TRUE), PFlags_node(FALSE), PFlags_vs} :
           /\ pflags' = f
           /\ call' = Some([op |-> "new", result |-> f])
    /\ UNCHANGED <<visaVars, respVars, attrVars, connVars, authVars>>

\* flags.or(other)
Or ==
    /\ \E other \in [node : BOOLEAN, vs : BOOLEAN, vs_dock : BOOLEAN] :
           /\ pflags' = PFlags_or(pflags, other)
           /\ call' = Some([op |-> "or", self |-> pflags, other |-> other,
                            result |-> PFlags_or(pflags, other)])
    /\ UNCHANGED <<visaVars, respVars, attrVars, connVars, authVars>>

\* flags.count()
Count ==
    /\ call' = Some([op |-> "count", self |-> pflags, result |-> PFlags_count(pflags)])
    /\ UNCHANGED <<pflags, visaVars, respVars, attrVars, connVars, authVars>>

\* JoinPolicy { conditions: [], flags, provides }.write_to(builder)
WriteJoin ==
    /\ LET scope == [protocol |-> TCP, flag |-> None, port |-> Some(443), port_range |-> None]
           svc(id, kind) == [id |-> id, endpoints |-> <<scope>>, kind |-> kind]
           ProvidesInputs ==
               {None, Some(<<>>),
                Some(<<svc(<<"s">>, [kind |-> "Regular"])>>),
                Some(<<svc(<<"s">>, [kind |-> "Trusted", api |-> <<"v">>]),
                       svc(<<"t">>, [kind |-> "Authentication"])>>),
                Some(<<svc(<<"s">>, [kind |-> "Visa"]), svc(<<"t">>, [kind |-> "BuiltIn"])>>),
                Some(<<svc(<<"s">>, [kind |-> "Undefined"])>>),
                Some(<<svc(<<"s">>, [kind |-> "Regular"]), svc(<<"t">>, [kind |-> "Undefined"])>>)}
       IN  \E provides \in ProvidesInputs :
               LET jp == [conditions |-> <<>>, flags |-> pflags, provides |-> provides]
                   r == JoinPolicy_write_to(jp)
               IN  call' = Some([op |-> "write_to", policy |-> jp, panicked |-> r.panicked,
                                 msg |-> r.msg])
    /\ UNCHANGED <<pflags, visaVars, respVars, attrVars, connVars, authVars>>

\* Scope::try_from(reader)
DecodeScope ==
    /\ \E flag \in {"noFlag", "udpOneWay", "icmpRequestRepl", "unknown"},
          which \in {"port", "portRange", "unknown"},
          protocol \in {TCP, UDP} :
           LET reader == [protocol |-> protocol, flag |-> flag, which |-> which,
                          port_num |-> IF which = "port" THEN 443 ELSE 0,
                          low |-> IF which = "portRange" THEN 1000 ELSE 0,
                          high |-> IF which = "portRange" THEN 2000 ELSE 0]
           IN  call' = Some([op |-> "scope_try_from", input |-> reader,
                             result |-> Scope_try_from_v1(reader)])
    /\ UNCHANGED <<pflags, visaVars, respVars, attrVars, connVars, authVars>>

\* A Scope is written as the endpoint of a service, and the endpoint is read
\* back with Scope::try_from.
RoundTripScope ==
    /\ \E flag \in {None, Some("UdpOneWay"), Some("IcmpRequestReply")},
          port \in {None, Some(0), Some(443)},
          port_range \in {None, Some(<<1000, 2000>>)} :
           LET scope == [protocol |-> UDP, flag |-> flag, port |-> port,
                         port_range |-> port_range]
               written == write_services(<<[id |-> <<"s">>, endpoints |-> <<scope>>,
                                            kind |-> [kind |-> "Regular"]]>>)
           IN  call' = Some([op |-> "scope_round_trip", scope |-> scope,
                             wire |-> written[1].endpoints[1],
                             back |-> Scope_try_from_v1(written[1].endpoints[1])])
    /\ UNCHANGED <<pflags, visaVars, respVars, attrVars, connVars, authVars>>

\* Service::try_from(reader)
DecodeService ==
    /\ LET port == [protocol |-> TCP, flag |-> "noFlag", which |-> "port", port_num |-> 443,
                    low |-> 0, high |-> 0]
           bad == [port EXCEPT !.which = "unknown"]
       IN  \E id \in {<<"s">>, <<"s", "\\xff">>},
              endpoints \in {<<>>, <<port>>, <<port, bad>>},
              kind \in [which : {"regular", "auth", "visa", "builtin", "unknown"}, name : {<<>>}]
                       \cup [which : {"trusted"}, name : {<<"v">>, <<"\\xff">>}] :
               LET reader == [id |-> id, endpoints |-> endpoints, kind |-> kind]
               IN  call' = Some([op |-> "service_try_from", input |-> reader,
                                 result |-> Service_try_from_v1(reader)])
    /\ UNCHANGED <<pflags, visaVars, respVars, attrVars, connVars, authVars>>

JoinNext ==
    \/ NewFlags
    \/ Or
    \/ Count
    \/ WriteJoin
    \/ DecodeScope
    \/ RoundTripScope
    \/ DecodeService

SpecJoin == IdleInit /\ [][JoinNext]_vars

\* C22: get_socket_addr() returns None when service_uri does not parse or
\* has no port written in it, and otherwise Some of the descriptor's
\* zpr_addr with the port written in the URI; the descriptor is unchanged.
C22_SocketAddrHasWrittenPort ==
    (IsSome(call) /\ Unwrap(call).op = "get_socket_addr") =>
        LET c == Unwrap(call)
            written == Url_split(c.self.service_uri)
        IN  /\ c.after = c.self
            /\ c.result =
                   IF ~written.ok \/ IsNone(Unwrap(written.val).port) THEN None
                   ELSE Some([ip |-> c.self.zpr_addr, port |-> Unwrap(Unwrap(written.val).port)])

\* C28: decoding a PacketDesc whose source or destination address variant or
\* whose communication type is unknown to the schema returns an error and
\* does not panic.
C28_UnknownValuesReturnError ==
    (IsSome(call) /\ Unwrap(call).op = "packet_desc_try_from") =>
        LET c == Unwrap(call)
            unknown == \/ c.input.source_addr.which \notin {"v4", "v6"}
                       \/ c.input.dest_addr.which \notin {"v4", "v6"}
                       \/ c.input.comm_type \notin {"bidirectional", "unidirectional", "rerequest"}
        IN  /\ ~c.panicked
            /\ unknown => (IsSome(c.result) /\ ~Unwrap(c.result).ok)

\* C30: a list decoded from a legacy services list whose expiration field is
\* 0 answers is_expired() FALSE at every clock value, and is_valid() TRUE
\* whenever it has a service.
C30_ZeroMeansNoExpiration ==
    (/\ IsSome(call)
     /\ Unwrap(call).op = "services_list_try_from"
     /\ Unwrap(call).input.expiration = Some(0)
     /\ IsSome(Unwrap(call).result)
     /\ Unwrap(Unwrap(call).result).ok
     /\ IsSome(aq)
     /\ Unwrap(aq).list = Unwrap(Unwrap(Unwrap(call).result).val)) =>
        /\ Unwrap(aq).op = "is_expired" => ~Unwrap(aq).result
        /\ Unwrap(aq).op = "is_valid" => (Unwrap(aq).result <=> Unwrap(aq).list.services # <<>>)

\* C23: write_to panics, and emits no message, exactly when the provides
\* list holds a Service of kind Undefined; otherwise every service is written
\* with one of the five kinds of the schema; and a Service decoded from the
\* wire has one of the five kinds, never Undefined.
C23_UndefinedNeverSerialized ==
    IsSome(call) =>
        LET c == Unwrap(call)
        IN  /\ c.op = "write_to" =>
                   LET provides == IF IsSome(c.policy.provides) THEN Unwrap(c.policy.provides)
                                   ELSE <<>>
                   IN  /\ c.panicked <=> \E i \in 1..Len(provides) :
                                             provides[i].kind.kind = "Undefined"
                       /\ c.panicked => c.msg = None
                       /\ (~c.panicked /\ IsSome(c.policy.provides)) =>
                              /\ IsSome(c.msg)
                              /\ IsSome(Unwrap(c.msg).provides)
                              /\ Len(Unwrap(Unwrap(c.msg).provides)) = Len(provides)
                              /\ \A i \in 1..Len(provides) :
                                     Unwrap(Unwrap(c.msg).provides)[i].kind.which
                                         \in {"regular", "trusted", "auth", "visa", "builtin"}
            /\ (c.op = "service_try_from" /\ c.result.ok) =>
                   /\ Unwrap(c.result.val).kind.kind
                          \in {"Regular", "Trusted", "Authentication", "Visa", "BuiltIn"}
                   /\ c.input.kind.which \in {"regular", "trusted", "auth", "visa", "builtin"}

\* C23 witness: a policy providing a Regular service and then an Undefined
\* one was written, and the write panicked.
C23_Witness ==
    /\ IsSome(call)
    /\ Unwrap(call).op = "write_to"
    /\ IsSome(Unwrap(call).policy.provides)
    /\ Len(Unwrap(Unwrap(call).policy.provides)) = 2
    /\ Unwrap(Unwrap(call).policy.provides)[1].kind.kind = "Regular"
    /\ Unwrap(Unwrap(call).policy.provides)[2].kind.kind = "Undefined"
    /\ Unwrap(call).panicked

\* C24: a decoded Scope has exactly one of port and port_range; a Scope that
\* is written never has both; and a Scope written and read back has the same
\* port and the same port_range.
C24_PortAndRangeExclusive ==
    IsSome(call) =>
        LET c == Unwrap(call)
        IN  /\ (c.op = "scope_try_from" /\ c.result.ok) =>
                   (IsSome(Unwrap(c.result.val).port) <=> IsNone(Unwrap(c.result.val).port_range))
            /\ c.op = "scope_round_trip" =>
                   /\ ~(IsSome(c.scope.port) /\ IsSome(c.scope.port_range))
                   /\ c.back.ok
                   /\ Unwrap(c.back.val).port = c.scope.port
                   /\ Unwrap(c.back.val).port_range = c.scope.port_range

\* C26: or() is the field-wise OR of the three flags, so it is commutative,
\* associative and idempotent; count() is the number of set flags; write_to
\* emits no flag list when no flag is set and otherwise the set flags, once
\* each, in the order node, vs, vsdock; and a call of or() clears no flag and
\* does not lower count().
C26_PFlagsOrAndCount ==
    /\ [](IsSome(call) =>
            LET c == Unwrap(call)
                AllFlags == [node : BOOLEAN, vs : BOOLEAN, vs_dock : BOOLEAN]
                SetFlags(f) == {n \in {"node", "vs", "vs_dock"} : f[n]}
                Rank(x) == CASE x = "node" -> 1 [] x = "vs" -> 2 [] x = "vsdock" -> 3
            IN  /\ c.op = "or" =>
                       /\ c.result.node = (c.self.node \/ c.other.node)
                       /\ c.result.vs = (c.self.vs \/ c.other.vs)
                       /\ c.result.vs_dock = (c.self.vs_dock \/ c.other.vs_dock)
                       /\ c.result = PFlags_or(c.other, c.self)
                       /\ \A third \in AllFlags :
                              PFlags_or(c.result, third)
                                  = PFlags_or(c.self, PFlags_or(c.other, third))
                       /\ PFlags_or(c.result, c.other) = c.result
                       /\ PFlags_or(c.self, c.self) = c.self
                       /\ pflags = c.result
                /\ c.op = "count" =>
                       /\ c.result = Cardinality(SetFlags(c.self))
                       /\ c.result \in 0..3
                /\ (c.op = "write_to" /\ ~c.panicked) =>
                       LET n == Cardinality(SetFlags(c.policy.flags))
                           flags == Unwrap(c.msg).flags
                       IN  IF n = 0 THEN flags = None
                           ELSE /\ IsSome(flags)
                                /\ Len(Unwrap(flags)) = n
                                /\ \A i \in 1..n : \A j \in 1..n :
                                       i < j => Rank(Unwrap(flags)[i]) < Rank(Unwrap(flags)[j])
                                /\ ("node" \in {Unwrap(flags)[i] : i \in 1..n})
                                       <=> c.policy.flags.node
                                /\ ("vs" \in {Unwrap(flags)[i] : i \in 1..n})
                                       <=> c.policy.flags.vs
                                /\ ("vsdock" \in {Unwrap(flags)[i] : i \in 1..n})
                                       <=> c.policy.flags.vs_dock)
    /\ [][Or => /\ pflags.node => pflags'.node
                /\ pflags.vs => pflags'.vs
                /\ pflags.vs_dock => pflags'.vs_dock
                /\ PFlags_count(pflags') >= PFlags_count(pflags)]_vars

\* C26 witness: flags merged with or() until all three are set were written,
\* and the message lists node, vs, vsdock.
C26_Witness ==
    /\ IsSome(call)
    /\ Unwrap(call).op = "write_to"
    /\ ~Unwrap(call).panicked
    /\ pflags = [node |-> TRUE, vs |-> TRUE, vs_dock |-> TRUE]
    /\ Unwrap(Unwrap(call).msg).flags = Some(<<"node", "vs", "vsdock">>)

\* C29: decoding a Scope whose flag enumerant the schema does not know
\* fails with an error; it never yields a Scope.
C29_UnknownFlagIsError ==
    (/\ IsSome(call)
     /\ Unwrap(call).op = "scope_try_from"
     /\ Unwrap(call).input.flag \notin {"noFlag", "udpOneWay", "icmpRequestRepl"}) =>
        ~Unwrap(call).result.ok

C27_ExpirationSymmetric ==
    /\ (vkind = "v1" /\ vpc = "decoded" /\ Unwrap(decoded).ok) =>
           get_expiration_timestamp(Unwrap(Unwrap(decoded).val)) = Unwrap(wire).expiration
    /\ (vkind = "legacy" /\ vpc = "decoded" /\ Unwrap(decoded).ok) =>
           get_expiration_timestamp(Unwrap(Unwrap(decoded).val)) = Unwrap(Unwrap(legacy).expires)
    /\ (vkind = "canonical" /\ vpc \in {"written", "decoded"}
           /\ Unwrap(visa).expires.before_epoch) =>
           Unwrap(wire).expiration = <<0, 0, 0, 0>>
    /\ (vkind = "canonical" /\ vpc = "decoded" /\ Unwrap(decoded).ok
           /\ ~Unwrap(visa).expires.before_epoch) =>
           LET written == Unwrap(visa).expires
               back == Unwrap(Unwrap(decoded).val).expires
           IN  /\ ~back.before_epoch
               /\ back.secs = written.secs
               /\ back.nanos = (written.nanos \div 1000000) * 1000000

====
